---------------------------- MODULE Spec2Model ----------------------------
(***************************************************************************)
(* A model of DocCleaner (doccleaner.py): the DocCleanerGUI session (text  *)
(* buffer, bounded undo history, file open, the text transformations, the  *)
(* analysis passes) and the DOCX archive patcher remove_docx_watermark.    *)
(*                                                                         *)
(* Text is a sequence of characters.  A character is a string naming one   *)
(* code point: an ASCII character stands for itself ("a", " ", "\n"), any  *)
(* other code point is written "U+XXXX".                                   *)
(***************************************************************************)
EXTENDS Integers, Sequences, FiniteSets, TLC

VARIABLES
    txt,            \* content of the Text widget self.txt (without the newline Tk keeps at its end)
    undo_stack,     \* self.undo_stack
    current_path,   \* self.current_path
    current_kind,   \* self.current_kind
    refs,           \* self.refs
    Document,       \* the module global Document: TRUE when python-docx was imported, FALSE when it is None
    BeautifulSoup,  \* the module global BeautifulSoup, likewise
    op,             \* the handler that ran last, how it ended, and the message box it showed
    pushes,         \* history variable: the pushes made onto the history since it was last empty
    limit,          \* the longest text the Text widget is given in this run (a bound of the model)
    zin,            \* the archive remove_docx_watermark read last
    zout            \* the archive remove_docx_watermark wrote last

vars == <<txt, undo_stack, current_path, current_kind, refs, Document, BeautifulSoup, op,
          pushes, limit, zin, zout>>

(***************************************************************************)
(* Bounds of the model.                                                    *)
(***************************************************************************)
\* self.max_undo, the bound N of the edit history.  __init__ sets it to 20
\* (doccleaner.py:99); it is a parameter of the history, and the model runs
\* the history with a small N.
max_undo == 2
\* The longest text the Text widget holds (an operation whose result is longer
\* is not taken): MaxTextLen in Spec, MaxReportLen in SpecReport.
MaxTextLen == 3
MaxReportLen == 9

(***************************************************************************)
(* Characters and the character classes of Python's re and str.            *)
(***************************************************************************)
LowerAZ == {"a","b","c","d","e","f","g","h","i","j","k","l","m",
            "n","o","p","q","r","s","t","u","v","w","x","y","z"}
UpperAZ == {"A","B","C","D","E","F","G","H","I","J","K","L","M",
            "N","O","P","Q","R","S","T","U","V","W","X","Y","Z"}
Digits == {"0","1","2","3","4","5","6","7","8","9"}

\* [\x00-\x1F\x7F-\x9F], as far as the model's characters go.
ControlChars == {"U+0001", "\t", "\n", "\r", "U+000C", "U+001F", "U+007F", "U+0085"}
\* [\u200B-\u200D\u2060\uFEFF]
ZeroWidthChars == {"U+200B", "U+200C", "U+200D", "U+2060", "U+FEFF"}
NBSP == "U+00A0"
\* \s of a str pattern, and str.isspace (they agree on these characters).
WhiteSpace == {" ", "\t", "\n", "\r", "U+000C", "U+001F", "U+0085", "U+00A0", "U+2028"}
\* The line boundaries of str.splitlines.
LineBreaks == {"\n", "\r", "U+000C", "U+0085", "U+2028"}

LDQ == "U+201C"
RDQ == "U+201D"
LSQ == "U+2018"
RSQ == "U+2019"
ENDASH == "U+2013"

(***************************************************************************)
(* The module's tables: stop words and translation dictionaries.           *)
(***************************************************************************)
\* The characters of U+00E0..U+1EF9 that the dictionaries and stop words use (all lower case).
DictAccented ==
    { "U+00E0", "U+00E1", "U+00E2", "U+00E3", "U+00EA", "U+00EC", "U+00F3", "U+00F4",
      "U+0111", "U+0169", "U+01A1", "U+01B0", "U+1EA1", "U+1EA3", "U+1EA5", "U+1EA7",
      "U+1EAD", "U+1EAF", "U+1EBD", "U+1EBF", "U+1EC1", "U+1EC7", "U+1ECB", "U+1ED9",
      "U+1EDB", "U+1EDD", "U+1EDF", "U+1EE3", "U+1EE7", "U+1EEB", "U+1EEF" }

\* The characters of the keys of BASE_JA.
JapaneseChars ==
    { "U+3058", "U+306B", "U+306F", "U+3081", "U+30A3", "U+30AF", "U+30B5", "U+30B7",
      "U+30B9", "U+30BB", "U+30C3", "U+30C6", "U+30C8", "U+30CD", "U+30DE", "U+30EF",
      "U+30F3", "U+30FC", "U+4EA4", "U+53C2", "U+56F3", "U+5BDF", "U+6587", "U+65B9",
      "U+679C", "U+6CD5", "U+7121", "U+732E", "U+7D04", "U+7D50", "U+7DDA", "U+8003",
      "U+8868", "U+8981", "U+8AD6", "U+901A" }

\* STOP_VI
STOP_VI ==
    { <<"b", "U+1EDF", "i">>,
      <<"c", "h", "o">>,
      <<"c", "U+00E1", "c">>,
      <<"c", "U+00F3">>,
      <<"c", "U+0169", "n", "g">>,
      <<"c", "U+1EE7", "a">>,
      <<"d", "o">>,
      <<"d", "U+01B0", "U+1EDB", "i">>,
      <<"g", "i", "U+1EEF", "a">>,
      <<"k", "h", "i">>,
      <<"k", "h", "U+00F4", "n", "g">>,
      <<"l", "U+00E0">>,
      <<"l", "U+1EA1", "i">>,
      <<"m", "U+00E0">>,
      <<"m", "U+1ED9", "t">>,
      <<"n", "h", "U+01B0">>,
      <<"n", "h", "U+1EEF", "n", "g">>,
      <<"n", "U+00E0", "y">>,
      <<"n", "U+1EBF", "u">>,
      <<"n", "U+1EEF", "a">>,
      <<"r", "a">>,
      <<"r", "U+1EA5", "t">>,
      <<"s", "a", "u">>,
      <<"s", "U+1EBD">>,
      <<"t", "h", "e", "o">>,
      <<"t", "h", "U+00EC">>,
      <<"t", "r", "o", "n", "g">>,
      <<"t", "r", "U+00EA", "n">>,
      <<"t", "r", "U+01B0", "U+1EDB", "c">>,
      <<"t", "U+1EEB">>,
      <<"v", "U+00E0">>,
      <<"v", "U+00E0", "o">>,
      <<"v", "U+00EC">>,
      <<"v", "U+1EC1">>,
      <<"v", "U+1EDB", "i">>,
      <<"U+0111", "U+00E3">>,
      <<"U+0111", "U+00F3">>,
      <<"U+0111", "U+01B0", "U+1EE3", "c">>,
      <<"U+0111", "U+1EBF", "n">>,
      <<"U+1EDF">> }

\* STOP_EN
STOP_EN ==
    { <<"a">>,
      <<"a", "n">>,
      <<"a", "n", "d">>,
      <<"a", "r", "e">>,
      <<"a", "s">>,
      <<"a", "t">>,
      <<"b", "e">>,
      <<"b", "e", "e", "n">>,
      <<"b", "u", "t">>,
      <<"b", "y">>,
      <<"c", "a", "n">>,
      <<"c", "o", "u", "l", "d">>,
      <<"d", "i", "d">>,
      <<"d", "o">>,
      <<"d", "o", "e", "s">>,
      <<"f", "o", "r">>,
      <<"f", "r", "o", "m">>,
      <<"h", "a", "d">>,
      <<"h", "a", "s">>,
      <<"h", "a", "v", "e">>,
      <<"i", "n">>,
      <<"i", "s">>,
      <<"i", "t">>,
      <<"n", "o", "t">>,
      <<"o", "f">>,
      <<"o", "n">>,
      <<"o", "r">>,
      <<"s", "h", "o", "u", "l", "d">>,
      <<"t", "h", "a", "t">>,
      <<"t", "h", "e">>,
      <<"t", "h", "e", "s", "e">>,
      <<"t", "h", "i", "s">>,
      <<"t", "h", "o", "s", "e">>,
      <<"t", "o">>,
      <<"w", "a", "s">>,
      <<"w", "e", "r", "e">>,
      <<"w", "i", "l", "l">>,
      <<"w", "i", "t", "h">>,
      <<"w", "o", "u", "l", "d">> }

\* BASE_EN, as the sequence of its (key, value) pairs in dict order.
BASE_EN ==
    <<
       <<<<"i", "n", "t", "r", "o", "d", "u", "c", "t", "i", "o", "n">>,
         <<"g", "i", "U+1EDB", "i", " ", "t", "h", "i", "U+1EC7", "u">>>>,
       <<<<"c", "o", "n", "c", "l", "u", "s", "i", "o", "n">>,
         <<"k", "U+1EBF", "t", " ", "l", "u", "U+1EAD", "n">>>>,
       <<<<"s", "u", "m", "m", "a", "r", "y">>,
         <<"t", "U+00F3", "m", " ", "t", "U+1EAF", "t">>>>,
       <<<<"c", "h", "a", "p", "t", "e", "r">>,
         <<"c", "h", "U+01B0", "U+01A1", "n", "g">>>>,
       <<<<"r", "e", "f", "e", "r", "e", "n", "c", "e", "s">>,
         <<"t", "U+00E0", "i", " ", "l", "i", "U+1EC7", "u", " ", "t", "h", "a", "m", " ", "k", "h", "U+1EA3", "o">>>>,
       <<<<"f", "i", "g", "u", "r", "e">>,
         <<"h", "U+00EC", "n", "h">>>>,
       <<<<"t", "a", "b", "l", "e">>,
         <<"b", "U+1EA3", "n", "g">>>>,
       <<<<"m", "e", "t", "h", "o", "d">>,
         <<"p", "h", "U+01B0", "U+01A1", "n", "g", " ", "p", "h", "U+00E1", "p">>>>,
       <<<<"r", "e", "s", "u", "l", "t">>,
         <<"k", "U+1EBF", "t", " ", "q", "u", "U+1EA3">>>>,
       <<<<"d", "i", "s", "c", "u", "s", "s", "i", "o", "n">>,
         <<"t", "h", "U+1EA3", "o", " ", "l", "u", "U+1EAD", "n">>>>,
       <<<<"t", "r", "a", "n", "s", "p", "o", "r", "t", "a", "t", "i", "o", "n">>,
         <<"g", "i", "a", "o", " ", "t", "h", "U+00F4", "n", "g">>>>,
       <<<<"w", "i", "r", "e", "l", "e", "s", "s", " ", "s", "e", "n", "s", "o", "r", " ", "n", "e", "t", "w", "o", "r", "k">>,
         <<"m", "U+1EA1", "n", "g", " ", "c", "U+1EA3", "m", " ", "b", "i", "U+1EBF", "n", " ", "k", "h", "U+00F4", "n", "g", " ", "d", "U+00E2", "y">>>>,
       <<<<"s", "m", "a", "r", "t", " ", "c", "i", "t", "y">>,
         <<"U+0111", "U+00F4", " ", "t", "h", "U+1ECB", " ", "t", "h", "U+00F4", "n", "g", " ", "m", "i", "n", "h">>>>,
       <<<<"a", "b", "s", "t", "r", "a", "c", "t">>,
         <<"t", "U+00F3", "m", " ", "t", "U+1EAF", "t">>>>,
       <<<<"k", "e", "y", "w", "o", "r", "d", "s">>,
         <<"t", "U+1EEB", " ", "k", "h", "U+00F3", "a">>>>,
       <<<<"a", "c", "k", "n", "o", "w", "l", "e", "d", "g", "m", "e", "n", "t">>,
         <<"l", "U+1EDD", "i", " ", "c", "U+1EA3", "m", " ", "U+01A1", "n">>>>
    >>

\* BASE_JA, as the sequence of its (key, value) pairs in dict order.
BASE_JA ==
    <<
       <<<<"U+306F", "U+3058", "U+3081", "U+306B">>,
         <<"m", "U+1EDF", " ", "U+0111", "U+1EA7", "u">>>>,
       <<<<"U+7D50", "U+8AD6">>,
         <<"k", "U+1EBF", "t", " ", "l", "u", "U+1EAD", "n">>>>,
       <<<<"U+53C2", "U+8003", "U+6587", "U+732E">>,
         <<"t", "U+00E0", "i", " ", "l", "i", "U+1EC7", "u", " ", "t", "h", "a", "m", " ", "k", "h", "U+1EA3", "o">>>>,
       <<<<"U+56F3">>,
         <<"h", "U+00EC", "n", "h">>>>,
       <<<<"U+8868">>,
         <<"b", "U+1EA3", "n", "g">>>>,
       <<<<"U+65B9", "U+6CD5">>,
         <<"p", "h", "U+01B0", "U+01A1", "n", "g", " ", "p", "h", "U+00E1", "p">>>>,
       <<<<"U+7D50", "U+679C">>,
         <<"k", "U+1EBF", "t", " ", "q", "u", "U+1EA3">>>>,
       <<<<"U+8003", "U+5BDF">>,
         <<"t", "h", "U+1EA3", "o", " ", "l", "u", "U+1EAD", "n">>>>,
       <<<<"U+4EA4", "U+901A">>,
         <<"g", "i", "a", "o", " ", "t", "h", "U+00F4", "n", "g">>>>,
       <<<<"U+7121", "U+7DDA", "U+30BB", "U+30F3", "U+30B5", "U+30CD", "U+30C3", "U+30C8", "U+30EF", "U+30FC", "U+30AF">>,
         <<"m", "U+1EA1", "n", "g", " ", "c", "U+1EA3", "m", " ", "b", "i", "U+1EBF", "n", " ", "k", "h", "U+00F4", "n", "g", " ", "d", "U+00E2", "y">>>>,
       <<<<"U+30B9", "U+30DE", "U+30FC", "U+30C8", "U+30B7", "U+30C6", "U+30A3">>,
         <<"U+0111", "U+00F4", " ", "t", "h", "U+1ECB", " ", "t", "h", "U+00F4", "n", "g", " ", "m", "i", "n", "h">>>>,
       <<<<"U+8981", "U+7D04">>,
         <<"t", "U+00F3", "m", " ", "t", "U+1EAF", "t">>>>
    >>

\* Seq helpers.
Last(s) == s[Len(s)]
Front(s) == SubSeq(s, 1, Len(s) - 1)
Min(a, b) == IF a < b THEN a ELSE b


(***************************************************************************)
(* What Python's re does, for the patterns of the source.  None of them    *)
(* matches the empty string.                                               *)
(***************************************************************************)
\* The length of the longest run of characters of C that starts at s[i].
Run(s, i, C) ==
    LET G[j \in 1..(Len(s) + 1)] ==
            IF j > Len(s) \/ s[j] \notin C THEN 0 ELSE 1 + G[j + 1]
    IN  G[i]

\* The length of the longest run of characters not of C that starts at s[i].
RunNot(s, i, C) ==
    LET G[j \in 1..(Len(s) + 1)] ==
            IF j > Len(s) \/ s[j] \in C THEN 0 ELSE 1 + G[j + 1]
    IN  G[i]

\* Matching steps.  A position is 1..Len(s)+1; 0 says the match has failed.
\* C* (greedy; the patterns never need to give a character back).
Star(s, p, C) == IF p = 0 THEN 0 ELSE p + Run(s, p, C)
\* C+
Plus(s, p, C) == IF p = 0 \/ Run(s, p, C) = 0 THEN 0 ELSE p + Run(s, p, C)
\* One character of C.
One(s, p, C) == IF p = 0 \/ p > Len(s) \/ s[p] \notin C THEN 0 ELSE p + 1
\* C?
Opt(s, p, C) == IF p = 0 THEN 0 ELSE IF p <= Len(s) /\ s[p] \in C THEN p + 1 ELSE p
\* The literal text w.
Lit(s, p, w) ==
    IF p = 0 \/ p + Len(w) - 1 > Len(s) THEN 0
    ELSE IF \A k \in 1..Len(w) : s[p + k - 1] = w[k] THEN p + Len(w) ELSE 0

\* re.sub(pattern, repl, s): M(s, i) is the length of the pattern's match at
\* s[i] (0: none), R(s, i, m) what replaces the match s[i..i+m-1].  Matches are
\* taken leftmost first and do not overlap.
ReSub(s, M(_, _), R(_, _, _)) ==
    LET n == Len(s)
        F[i \in 1..(n + 1)] ==
            IF i > n THEN << >>
            ELSE LET m == M(s, i)
                 IN  IF m > 0 THEN R(s, i, m) \o F[i + m]
                     ELSE <<s[i]>> \o F[i + 1]
    IN  F[1]

\* re.findall(pattern, s) for a pattern without groups: the matches, in order.
ReFindAll(s, M(_, _)) ==
    LET n == Len(s)
        F[i \in 1..(n + 1)] ==
            IF i > n THEN << >>
            ELSE LET m == M(s, i)
                 IN  IF m > 0 THEN <<SubSeq(s, i, i + m - 1)>> \o F[i + m]
                     ELSE F[i + 1]
    IN  F[1]

\* str.strip()
Strip(s) ==
    LET a == Run(s, 1, WhiteSpace)
        G[j \in 0..Len(s)] == IF j = 0 \/ s[j] \notin WhiteSpace THEN j ELSE G[j - 1]
    IN  IF a = Len(s) THEN << >> ELSE SubSeq(s, a + 1, G[Len(s)])

\* str.replace(old, new) for a single character old.
ReplaceChar(s, old, new) == [k \in 1..Len(s) |-> IF s[k] = old THEN new ELSE s[k]]

RemoveChars(s, C) == SelectSeq(s, LAMBDA c : c \notin C)

\* \n{3,}
MatchNewlines3(s, i) == IF Run(s, i, {"\n"}) >= 3 THEN Run(s, i, {"\n"}) ELSE 0
\* [ \t]+$ under re.MULTILINE
MatchTrailingBlank(s, i) ==
    LET r == Run(s, i, {" ", "\t"})
    IN  IF r > 0 /\ (i + r > Len(s) \/ s[i + r] = "\n") THEN r ELSE 0
\* \s+
MatchSpaces(s, i) == Run(s, i, WhiteSpace)

Punct6 == {".", ",", ";", ":", "!", "?"}
Punct4 == {".", ",", ";", ":"}
\* Characters of the model in U+00C0..U+1EF9.
AccentedLower == DictAccented
AccentedUpper == {"U+00C0", "U+01AF", "U+01A0"}
\* [A-Z\u00C0-\u1EF8a-z\u00E0-\u1EF9]
Letters == LowerAZ \cup UpperAZ \cup AccentedLower \cup AccentedUpper
\* [a-z\u00E0-\u1EF9]
LowerOrAccented == LowerAZ \cup AccentedLower

(***************************************************************************)
(* The text transformations.                                               *)
(***************************************************************************)
\* A cleaning that strips the text before it removes the characters.
clean_hidden_strips_first(text) ==
    LET t1 == RemoveChars(Strip(text), ControlChars)
        t2 == RemoveChars(t1, ZeroWidthChars)
        t3 == ReplaceChar(t2, NBSP, " ")
        t4 == ReSub(t3, MatchTrailingBlank, LAMBDA s, i, m : << >>)
    IN  ReSub(t4, MatchNewlines3, LAMBDA s, i, m : <<"\n", "\n">>)

\* ui_clean_hidden, from the text read to the text handed to _replace_text.
clean_hidden(text) ==
    LET t1 == RemoveChars(text, ControlChars)
        t2 == RemoveChars(t1, ZeroWidthChars)
        t3 == ReplaceChar(t2, NBSP, " ")
        t4 == ReSub(t3, MatchTrailingBlank, LAMBDA s, i, m : << >>)
        t5 == ReSub(t4, MatchNewlines3, LAMBDA s, i, m : <<"\n", "\n">>)
    IN  Strip(t5)

\* \s+([.,;:!?])
MatchSpaceBeforePunct6(s, i) ==
    LET q == One(s, Plus(s, i, WhiteSpace), Punct6) IN IF q = 0 THEN 0 ELSE q - i
\* ([.,;:!?])([A-Z\u00C0-\u1EF8a-z\u00E0-\u1EF9])
MatchPunctLetter(s, i) ==
    LET q == One(s, One(s, i, Punct6), Letters) IN IF q = 0 THEN 0 ELSE q - i
\* " {2,}"
MatchSpaces2(s, i) == IF Run(s, i, {" "}) >= 2 THEN Run(s, i, {" "}) ELSE 0

\* A normalisation that leaves the runs of spaces as they are.
normalize_whitespace_keeps_runs(text) ==
    LET t1 == ReSub(text, MatchSpaceBeforePunct6, LAMBDA s, i, m : <<s[i + m - 1]>>)
        t2 == ReSub(t1, MatchPunctLetter, LAMBDA s, i, m : <<s[i], " ", s[i + 1]>>)
        t4 == ReSub(t2, MatchNewlines3, LAMBDA s, i, m : <<"\n", "\n">>)
    IN  Strip(t4)

\* ui_normalize_whitespace, from the text read to the text handed to _replace_text.
normalize_whitespace(text) ==
    LET t1 == ReSub(text, MatchSpaceBeforePunct6, LAMBDA s, i, m : <<s[i + m - 1]>>)
        t2 == ReSub(t1, MatchPunctLetter, LAMBDA s, i, m : <<s[i], " ", s[i + 1]>>)
        t3 == ReSub(t2, MatchSpaces2, LAMBDA s, i, m : <<" ">>)
        t4 == ReSub(t3, MatchNewlines3, LAMBDA s, i, m : <<"\n", "\n">>)
    IN  Strip(t4)

\* "([^"]*)" and '([^']*)': a quote character q and the next q after it.
MatchQuoted(s, i, q) ==
    LET j == One(s, IF One(s, i, {q}) = 0 THEN 0 ELSE i + 1 + RunNot(s, i + 1, {q}), {q})
    IN  IF j = 0 THEN 0 ELSE j - i

normalize_quotes(text, mode) ==
    IF mode = "vni"
    THEN LET t1 == ReSub(text, LAMBDA s, i : MatchQuoted(s, i, "\""),
                         LAMBDA s, i, m : <<LDQ>> \o SubSeq(s, i + 1, i + m - 2) \o <<RDQ>>)
         IN  ReSub(t1, LAMBDA s, i : MatchQuoted(s, i, "'"),
                   LAMBDA s, i, m : <<LSQ>> \o SubSeq(s, i + 1, i + m - 2) \o <<RSQ>>)
    ELSE LET t1 == ReplaceChar(ReplaceChar(text, LDQ, "\""), RDQ, "\"")
         IN  ReplaceChar(ReplaceChar(t1, LSQ, "'"), RSQ, "'")


\* [A-Za-z\-]
NameChars == LowerAZ \cup UpperAZ \cup {"-"}

\* (?:\s+et\s+al\.)? from position p: where the match goes on.
OptEtAl(s, p) ==
    LET q == Lit(s, Plus(s, Lit(s, Plus(s, p, WhiteSpace), <<"e", "t">>), WhiteSpace),
                 <<"a", "l", ".">>)
    IN  IF q = 0 THEN p ELSE q

\* (?:\s*&\s*[A-Z][A-Za-z\-]+)? from position p: where the match goes on.
OptSecondAuthor(s, p) ==
    LET q == Plus(s, One(s, Star(s, One(s, Star(s, p, WhiteSpace), {"&"}), WhiteSpace),
                         UpperAZ), NameChars)
    IN  IF q = 0 THEN p ELSE q

\* \d{4}[a-z]? from position p.
Year(s, p) ==
    Opt(s, One(s, One(s, One(s, One(s, p, Digits), Digits), Digits), Digits), LowerAZ)

\* \[\s*(\d+)\s*\]: <<end, start of \1, end of \1>>, each a position (end 0: no match).
MatchCite1(s, i) ==
    LET a == Star(s, One(s, i, {"["}), WhiteSpace)
        b == Plus(s, a, Digits)
    IN  <<One(s, Star(s, b, WhiteSpace), {"]"}), a, b>>

\* \[\s*(\d+)\s*,\s*(\d+)\s*\]: <<end, start of \1, end of \1, start of \2, end of \2>>.
MatchCite2(s, i) ==
    LET a == Star(s, One(s, i, {"["}), WhiteSpace)
        b == Plus(s, a, Digits)
        c == Star(s, One(s, Star(s, b, WhiteSpace), {","}), WhiteSpace)
        d == Plus(s, c, Digits)
    IN  <<One(s, Star(s, d, WhiteSpace), {"]"}), a, b, c, d>>

\* \(\s*([A-Z][A-Za-z\-]+(?:\s+et\s+al\.)?)\s*,\s*(\d{4}[a-z]?)\s*\)
MatchAuthorYearNorm(s, i) ==
    LET a == Star(s, One(s, i, {"("}), WhiteSpace)
        n == Plus(s, One(s, a, UpperAZ), NameChars)
        b == IF n = 0 THEN 0 ELSE OptEtAl(s, n)
        c == Star(s, One(s, Star(s, b, WhiteSpace), {","}), WhiteSpace)
        d == Year(s, c)
    IN  <<One(s, Star(s, d, WhiteSpace), {")"}), a, b, c, d>>

MatchLen(m, i) == IF m[1] = 0 THEN 0 ELSE m[1] - i

citations_normalize(text) ==
    LET t1 == ReSub(text, LAMBDA s, i : MatchLen(MatchCite1(s, i), i),
                    LAMBDA s, i, m : LET g == MatchCite1(s, i)
                                     IN  <<"[">> \o SubSeq(s, g[2], g[3] - 1) \o <<"]">>)
        t2 == ReSub(t1, LAMBDA s, i : MatchLen(MatchCite2(s, i), i),
                    LAMBDA s, i, m : LET g == MatchCite2(s, i)
                                     IN  <<"[">> \o SubSeq(s, g[2], g[3] - 1) \o <<",", " ">>
                                         \o SubSeq(s, g[4], g[5] - 1) \o <<"]">>)
    IN  ReSub(t2, LAMBDA s, i : MatchLen(MatchAuthorYearNorm(s, i), i),
              LAMBDA s, i, m : LET g == MatchAuthorYearNorm(s, i)
                               IN  <<"(">> \o SubSeq(s, g[2], g[3] - 1) \o <<",", " ">>
                                   \o SubSeq(s, g[4], g[5] - 1) \o <<")">>)

\* [\u2013\-,]
CiteSeparators == {ENDASH, "-", ","}

\* (?:\s*\d+\s*(?:[\u2013\-,]\s*\d+\s*)*)+ matches all of c.  The state after
\* each character: "E" a number must follow, "N" in a number, "W" in the
\* blanks after a number, "X" no match.
CiteListOk(c) ==
    LET St[k \in 0..Len(c)] ==
            IF k = 0 THEN "E"
            ELSE LET q == St[k - 1]
                     x == c[k]
                 IN  IF q = "X" THEN "X"
                     ELSE IF x \in Digits THEN "N"
                     ELSE IF x \in WhiteSpace THEN (IF q = "E" THEN "E" ELSE "W")
                     ELSE IF x \in CiteSeparators /\ q # "E" THEN "E"
                     ELSE "X"
    IN  St[Len(c)] \in {"N", "W"}

\* \[(?:\s*\d+\s*(?:[\u2013\-,]\s*\d+\s*)*)+\]
MatchCiteList(s, i) ==
    IF One(s, i, {"["}) = 0 THEN 0
    ELSE LET j == i + 1 + RunNot(s, i + 1, {"]"})
         IN  IF j <= Len(s) /\ CiteListOk(SubSeq(s, i + 1, j - 1)) THEN j + 1 - i ELSE 0

\* \([A-Z][A-Za-z\-]+(?:\s+et\s+al\.)?(?:\s*&\s*[A-Z][A-Za-z\-]+)?,\s*\d{4}[a-z]?\)
MatchAuthorYear(s, i) ==
    LET n == Plus(s, One(s, One(s, i, {"("}), UpperAZ), NameChars)
        b == IF n = 0 THEN 0 ELSE OptSecondAuthor(s, OptEtAl(s, n))
        q == One(s, Year(s, Star(s, One(s, b, {","}), WhiteSpace)), {")"})
    IN  IF q = 0 THEN 0 ELSE q - i

\* \s+([.,;:])
MatchSpaceBeforePunct4(s, i) ==
    LET q == One(s, Plus(s, i, WhiteSpace), Punct4) IN IF q = 0 THEN 0 ELSE q - i

citations_remove(text) ==
    LET t1 == ReSub(text, MatchCiteList, LAMBDA s, i, m : << >>)
        t2 == ReSub(t1, MatchAuthorYear, LAMBDA s, i, m : << >>)
        t3 == ReSub(t2, MatchSpaces, LAMBDA s, i, m : <<" ">>)
    IN  ReSub(t3, MatchSpaceBeforePunct4, LAMBDA s, i, m : <<s[i + m - 1]>>)

\* [^\s<>"')] is every character but these.
UrlStops == WhiteSpace \cup {"<", ">", "\"", "'", ")"}

\* https?://[^\s<>"')]+
MatchUrl(s, i) ==
    LET h == Lit(s, i, <<"h", "t", "t", "p">>)
        q == IF h = 0 THEN 0
             ELSE LET r == Lit(s, Opt(s, h, {"s"}), <<":", "/", "/">>)
                  IN  IF r = 0 \/ RunNot(s, r, UrlStops) = 0 THEN 0
                      ELSE r + RunNot(s, r, UrlStops)
    IN  IF q = 0 THEN 0 ELSE q - i

\* The first position >= p where </a> starts, in either case (0: nowhere).
FindAnchorEnd(s, p) ==
    LET F[j \in 1..(Len(s) + 1)] ==
            IF j > Len(s) THEN 0
            ELSE IF Lit(s, j, <<"<", "/", "a", ">">>) # 0 \/ Lit(s, j, <<"<", "/", "A", ">">>) # 0
                 THEN j ELSE F[j + 1]
    IN  IF p = 0 THEN 0 ELSE F[p]

\* <a[^>]*>([\s\S]*?)</a> under re.IGNORECASE: <<end, start of \1, end of \1>>.
MatchAnchor(s, i) ==
    LET a == One(s, One(s, i, {"<"}), {"a", "A"})
        b == One(s, IF a = 0 THEN 0 ELSE a + RunNot(s, a, {">"}), {">"})
        e == FindAnchorEnd(s, b)
    IN  <<IF e = 0 THEN 0 ELSE e + 4, b, e>>

\* list(dict.fromkeys(l)): l without its repetitions, first occurrences kept.
Unique(l) ==
    LET F[k \in 0..Len(l)] ==
            IF k = 0 THEN << >>
            ELSE IF \E j \in 1..(k - 1) : l[j] = l[k] THEN F[k - 1]
                 ELSE Append(F[k - 1], l[k])
    IN  F[Len(l)]

\* A collection that looks for the URLs once the anchors are unwrapped.
links_strip_and_collect_unwraps_first(text) ==
    LET t1 == ReSub(text, LAMBDA s, i : MatchLen(MatchAnchor(s, i), i),
                    LAMBDA s, i, m : LET g == MatchAnchor(s, i)
                                     IN  SubSeq(s, g[2], g[3] - 1))
        urls == ReFindAll(t1, MatchUrl)
        t2 == ReSub(t1, MatchUrl, LAMBDA s, i, m : << >>)
        t3 == ReSub(t2, MatchSpaces, LAMBDA s, i, m : <<" ">>)
    IN  [text |-> t3, refs |-> Unique(urls)]

\* links_strip_and_collect: the text returned and the list stored to self.refs.
links_strip_and_collect(text) ==
    LET urls == ReFindAll(text, MatchUrl)
        t1 == ReSub(text, LAMBDA s, i : MatchLen(MatchAnchor(s, i), i),
                    LAMBDA s, i, m : LET g == MatchAnchor(s, i)
                                     IN  SubSeq(s, g[2], g[3] - 1))
        t2 == ReSub(t1, MatchUrl, LAMBDA s, i, m : << >>)
        t3 == ReSub(t2, MatchSpaces, LAMBDA s, i, m : <<" ">>)
    IN  [text |-> t3, refs |-> Unique(urls)]


\* str.lower() and the case folding of re.IGNORECASE, one character.
UpperSeq == <<"A","B","C","D","E","F","G","H","I","J","K","L","M",
              "N","O","P","Q","R","S","T","U","V","W","X","Y","Z",
              "U+00C0", "U+01AF", "U+01A0">>
LowerSeq == <<"a","b","c","d","e","f","g","h","i","j","k","l","m",
              "n","o","p","q","r","s","t","u","v","w","x","y","z",
              "U+00E0", "U+01B0", "U+01A1">>
LowerChar(c) ==
    IF \E k \in 1..Len(UpperSeq) : UpperSeq[k] = c
    THEN LowerSeq[CHOOSE k \in 1..Len(UpperSeq) : UpperSeq[k] = c]
    ELSE c
Lower(s) == [k \in 1..Len(s) |-> LowerChar(s[k])]

\* The literal text w (given in lower case) under re.IGNORECASE.
LitI(s, p, w) ==
    IF p = 0 \/ p + Len(w) - 1 > Len(s) THEN 0
    ELSE IF \A k \in 1..Len(w) : LowerChar(s[p + k - 1]) = w[k] THEN p + Len(w) ELSE 0

\* str.splitlines()
SplitLines(s) ==
    LET n == Len(s)
        F[i \in 1..(n + 2)] ==
            IF i > n THEN << >>
            ELSE LET r == RunNot(s, i, LineBreaks)
                     e == i + r
                 IN  IF e > n THEN <<SubSeq(s, i, n)>>
                     ELSE <<SubSeq(s, i, e - 1)>>
                          \o F[IF s[e] = "\r" /\ e < n /\ s[e + 1] = "\n" THEN e + 2 ELSE e + 1]
    IN  F[1]

\* '\n'.join(lines)
JoinLines(lines) ==
    LET F[k \in 0..Len(lines)] ==
            IF k = 0 THEN << >>
            ELSE IF k = 1 THEN lines[1]
            ELSE F[k - 1] \o <<"\n">> \o lines[k]
    IN  F[Len(lines)]

\* \w, as far as the model's characters go.
WordChars == LowerAZ \cup UpperAZ \cup Digits \cup {"_"} \cup AccentedLower \cup AccentedUpper
                \cup JapaneseChars

\* docx?|pdf|pptx?|xlsx?|csv|txt|md|html?|jpg|jpeg|png|gif|bmp|svg|zip|rar|7z|tar|gz
FileExtensions ==
    { <<"d","o","c">>, <<"d","o","c","x">>, <<"p","d","f">>, <<"p","p","t">>,
      <<"p","p","t","x">>, <<"x","l","s">>, <<"x","l","s","x">>, <<"c","s","v">>,
      <<"t","x","t">>, <<"m","d">>, <<"h","t","m">>, <<"h","t","m","l">>,
      <<"j","p","g">>, <<"j","p","e","g">>, <<"p","n","g">>, <<"g","i","f">>,
      <<"b","m","p">>, <<"s","v","g">>, <<"z","i","p">>, <<"r","a","r">>,
      <<"7","z">>, <<"t","a","r">>, <<"g","z">> }

\* (?i)^[\w\-\s]+\.(docx?|...|gz)$ matches the line s.
IsFilenameLine(s) ==
    LET d == One(s, Plus(s, 1, WordChars \cup {"-"} \cup WhiteSpace), {"."})
    IN  d # 0 /\ Lower(SubSeq(s, d, Len(s))) \in FileExtensions

\* ui_remove_filename_lines: the text handed to _replace_text and the count of dropped lines.
remove_filename_lines(text) ==
    LET lines == SplitLines(text)
        kept == SelectSeq(lines, LAMBDA l : ~IsFilenameLine(Strip(l)))
    IN  [text |-> JoinLines(kept), removed |-> Len(lines) - Len(kept)]

\* \.\.
MatchDots2(s, i) == IF Lit(s, i, <<".", ".">>) = 0 THEN 0 ELSE 2
\* (?:^|[.!?]\s+)[a-z\u00E0-\u1EF9] under re.MULTILINE
MatchBadCap(s, i) ==
    IF (i = 1 \/ s[i - 1] = "\n") /\ One(s, i, LowerOrAccented) # 0 THEN 1
    ELSE LET q == One(s, Plus(s, One(s, i, {".", "!", "?"}), WhiteSpace), LowerOrAccented)
         IN  IF q = 0 THEN 0 ELSE q - i
\* [.,;:][A-Z\u00C0-\u1EF8a-z\u00E0-\u1EF9]
MatchNoSpace(s, i) ==
    LET q == One(s, One(s, i, Punct4), Letters) IN IF q = 0 THEN 0 ELSE q - i

\* scan_issues: the findings, each with its count, in the order of the checks.
scan_issues(text) ==
    LET found == << [check |-> "double_dots", count |-> Len(ReFindAll(text, MatchDots2))],
                    [check |-> "bad_space", count |-> Len(ReFindAll(text, MatchSpaceBeforePunct4))],
                    [check |-> "bad_cap", count |-> Len(ReFindAll(text, MatchBadCap))],
                    [check |-> "multi_space", count |-> Len(ReFindAll(text, MatchSpaces2))],
                    [check |-> "no_space", count |-> Len(ReFindAll(text, MatchNoSpace))] >>
    IN  SelectSeq(found, LAMBDA f : f.count > 0)

\* CH\u01AF\u01A0NG\s+[IVX\d]+ | \d+\.(?:\d+\.)*\s+  at the start of s, under re.IGNORECASE
IsChapterLine(s) ==
    LET Outline[p \in 0..(Len(s) + 1)] ==
            LET q == One(s, Plus(s, p, Digits), {"."})
            IN  IF q = 0 THEN p ELSE Outline[q]
        first == One(s, Plus(s, 1, Digits), {"."})
    IN  \/ Plus(s, Plus(s, LitI(s, 1, <<"c", "h", "U+01B0", "U+01A1", "n", "g">>), WhiteSpace),
                Digits \cup {"I", "V", "X", "i", "v", "x"}) # 0
        \/ first # 0 /\ Plus(s, Outline[first], WhiteSpace) # 0

\* Abstract|Introduction|Conclusion|References|Acknowledgment
SectionWords ==
    { <<"a","b","s","t","r","a","c","t">>, <<"i","n","t","r","o","d","u","c","t","i","o","n">>,
      <<"c","o","n","c","l","u","s","i","o","n">>, <<"r","e","f","e","r","e","n","c","e","s">>,
      <<"a","c","k","n","o","w","l","e","d","g","m","e","n","t">> }

\* toc_detect: the (line number, line[:150]) pairs.
toc_detect(text) ==
    LET lines == SplitLines(text)
        IsHeading(l) == IsChapterLine(l) \/ \E w \in SectionWords : LitI(l, 1, w) # 0
        F[k \in 0..Len(lines)] ==
            IF k = 0 THEN << >>
            ELSE LET l == Strip(lines[k])
                 IN  IF IsHeading(l) THEN Append(F[k - 1], <<k, SubSeq(l, 1, Min(Len(l), 150))>>)
                     ELSE F[k - 1]
    IN  F[Len(lines)]


\* keyword_stats.  [a-z\u00E0-\u1EF90-9]+
KeywordChars == LowerAZ \cup AccentedLower \cup AccentedUpper \cup Digits

\* Counter(l).most_common(topk): the distinct elements of l with their counts,
\* larger counts first, equal counts in the order of first occurrence.
most_common(l, topk) ==
    LET keys == Unique(l)
        Count(w) == Cardinality({k \in 1..Len(l) : l[k] = w})
        top == IF Len(l) = 0 THEN 0 ELSE Len(l)
        ByCount[c \in 0..top] ==
            IF c = 0 THEN << >>
            ELSE LET here == SelectSeq(keys, LAMBDA w : Count(w) = c)
                 IN  [k \in 1..Len(here) |-> <<here[k], c>>] \o ByCount[c - 1]
        all == ByCount[top]
    IN  SubSeq(all, 1, Min(topk, Len(all)))

\* Statistics that take every text for an English one.
keyword_stats_english(text, topk) ==
    LET t == Lower(text)
        words == ReFindAll(t, LAMBDA s, i : Run(s, i, KeywordChars))
        filtered == SelectSeq(words, LAMBDA w : w \notin STOP_EN /\ Len(w) >= 3)
    IN  most_common(filtered, topk)

keyword_stats(text, topk) ==
    LET t == Lower(text)
        words == ReFindAll(t, LAMBDA s, i : Run(s, i, KeywordChars))
        vi_count == Cardinality({k \in 1..Len(words) :
                                    \E j \in 1..Len(words[k]) :
                                        words[k][j] \in AccentedLower \cup AccentedUpper})
        stop == IF 10 * vi_count > Len(words) THEN STOP_VI ELSE STOP_EN
        filtered == SelectSeq(words, LAMBDA w : w \notin stop /\ Len(w) >= 3)
    IN  most_common(filtered, topk)

\* dict.update(pairs) on a dict held as the sequence of its (key, value) pairs:
\* a key already there keeps its place and takes the new value, a new key goes last.
DictUpdate(d, pairs) ==
    LET Put(e, kv) ==
            IF \E k \in 1..Len(e) : e[k][1] = kv[1]
            THEN [k \in 1..Len(e) |-> IF e[k][1] = kv[1] THEN kv ELSE e[k]]
            ELSE Append(e, kv)
        F[n \in 0..Len(pairs)] == IF n = 0 THEN d ELSE Put(F[n - 1], pairs[n])
    IN  F[Len(pairs)]

\* sorted(d.keys(), key=len, reverse=True), each key with its value: longer
\* keys first, keys of one length in dict order (the sort is stable).
SortedByLength(d) ==
    LET longest == IF Len(d) = 0 THEN 0
                   ELSE CHOOSE n \in {Len(d[k][1]) : k \in 1..Len(d)} :
                            \A k \in 1..Len(d) : Len(d[k][1]) <= n
        F[n \in 0..longest] ==
            IF n = 0 THEN SelectSeq(d, LAMBDA kv : Len(kv[1]) = 0)
            ELSE SelectSeq(d, LAMBDA kv : Len(kv[1]) = n) \o F[n - 1]
    IN  F[longest]

\* re.escape(key) under re.IGNORECASE at s[i].
MatchKey(s, i, key) ==
    IF i + Len(key) - 1 <= Len(s)
       /\ \A k \in 1..Len(key) : LowerChar(s[i + k - 1]) = LowerChar(key[k])
    THEN Len(key) ELSE 0

\* The dictionary d of translate_simple once the glossary is loaded.
\* glossary is what the glossary file gives:
\*   [kind |-> "none"]                no path, or no file at the path
\*   [kind |-> "unreadable"]          open, json.load or d.update raises at once
\*                                    (no JSON; a JSON number, string or null)
\*   [kind |-> "dict", pairs |-> p]   a JSON object of strings, its (key, value)
\*                                    pairs in order
\*   [kind |-> "list", pairs |-> p]   a JSON array: p are its leading items that
\*                                    are two strings each (d.update takes them
\*                                    one by one, and raises at the first item
\*                                    that is none, the pairs before it staying)
\* Keys are not empty, and values hold no backslash (re.sub reads the value
\* as a template).
merged_dict(src, glossary) ==
    LET base == IF src = "ja" THEN BASE_JA ELSE BASE_EN
    IN  IF glossary.kind \in {"dict", "list"} THEN DictUpdate(base, glossary.pairs) ELSE base

\* translate_simple
translate_simple(text, src, glossary) ==
    LET d == merged_dict(src, glossary)
        keys == SortedByLength(d)
        F[n \in 0..Len(keys)] ==
            IF n = 0 THEN text
            ELSE ReSub(F[n - 1], LAMBDA s, i : MatchKey(s, i, keys[n][1]),
                       LAMBDA s, i, m : keys[n][2])
    IN  F[Len(keys)]


(***************************************************************************)
(* The session: the Text widget, the undo history, the handlers.           *)
(***************************************************************************)
\* self.txt.get('1.0', END): the content and the newline Tk keeps at the end of a Text widget.
Get(content) == content \o <<"\n">>

\* A history that lets one snapshot too many in before it evicts.
push_undo_late(stack, current_text) ==
    LET pushed == Append(stack, current_text)
    IN  IF Len(pushed) > max_undo + 1 THEN Tail(pushed) ELSE pushed

\* push_undo, given the text it reads from the widget: the new undo_stack.
push_undo(stack, current_text) ==
    LET pushed == Append(stack, current_text)
    IN  IF Len(pushed) > max_undo THEN Tail(pushed) ELSE pushed

\* What a handler leaves in op.  box is the messagebox call it made.
Ended(name, result, box) == [name |-> name, result |-> result, box |-> box]

\* The state the archive patcher owns.
archive == <<zin, zout>>

\* The history variable pushes.  While only pushes were made since the history
\* was last empty, n counts them (up to max_undo + 6) and ages[k] is the number
\* of pushes made after the push of undo_stack[k]; once a snapshot is popped
\* and others remain, it is Popped.
NoPushes == [n |-> 0, ages |-> << >>]
Popped == [n |-> -1, ages |-> << >>]
Pushed(p) ==
    IF p = Popped THEN Popped
    ELSE [n |-> Min(p.n + 1, max_undo + 6),
          ages |-> push_undo([k \in 1..Len(p.ages) |-> p.ages[k] + 1], 0)]
\* The module globals, set once at import.
imports == <<Document, BeautifulSoup>>

\* A replacement that commits the new text before it takes the snapshot.
_replace_text_late(text) ==
    /\ Len(text) <= limit
    /\ undo_stack' = push_undo(undo_stack, Get(text))
    /\ pushes' = Pushed(pushes)
    /\ txt' = text

\* _replace_text(text)
\* self.txt.delete('1.0', END); self.txt.insert('1.0', text) leaves text as the content.
_replace_text(text) ==
    /\ Len(text) <= limit
    /\ undo_stack' = push_undo(undo_stack, Get(txt))
    /\ pushes' = Pushed(pushes)
    /\ txt' = text

\* An undo that keeps the text it replaces, at the bottom of the history.
undo_action_kept ==
    /\ IF undo_stack = << >>
       THEN /\ op' = Ended("undo_action", "nothing_to_undo", "showinfo")
            /\ UNCHANGED <<txt, undo_stack, pushes>>
       ELSE /\ Len(Last(undo_stack)) <= limit
            /\ txt' = Last(undo_stack)
            /\ undo_stack' = <<Get(txt)>> \o Front(undo_stack)
            /\ pushes' = Popped
            /\ op' = Ended("undo_action", "done", "none")
    /\ UNCHANGED <<current_path, current_kind, refs, imports, limit, archive>>

\* An undo that, finding no snapshot, empties the widget as it would before an insert.
undo_action_blank ==
    /\ IF undo_stack = << >>
       THEN /\ op' = Ended("undo_action", "nothing_to_undo", "showinfo")
            /\ txt' = << >>
            /\ UNCHANGED <<undo_stack, pushes>>
       ELSE /\ Len(Last(undo_stack)) <= limit
            /\ txt' = Last(undo_stack)
            /\ undo_stack' = Front(undo_stack)
            /\ pushes' = IF undo_stack' = << >> THEN NoPushes ELSE Popped
            /\ op' = Ended("undo_action", "done", "none")
    /\ UNCHANGED <<current_path, current_kind, refs, imports, limit, archive>>

\* undo_action
undo_action ==
    /\ IF undo_stack = << >>
       THEN /\ op' = Ended("undo_action", "nothing_to_undo", "showinfo")
            /\ UNCHANGED <<txt, undo_stack, pushes>>
       ELSE /\ Len(Last(undo_stack)) <= limit
            /\ txt' = Last(undo_stack)
            /\ undo_stack' = Front(undo_stack)
            /\ pushes' = IF undo_stack' = << >> THEN NoPushes ELSE Popped
            /\ op' = Ended("undo_action", "done", "none")
    /\ UNCHANGED <<current_path, current_kind, refs, imports, limit, archive>>

\* <[^>]+>
MatchTag(s, i) ==
    LET a == One(s, i, {"<"})
        q == One(s, IF a = 0 \/ RunNot(s, a, {">"}) = 0 THEN 0 ELSE a + RunNot(s, a, {">"}), {">"})
    IN  IF q = 0 THEN 0 ELSE q - i
\* \n\s*\n  (\s* gives characters back until a newline follows: the match
\* ends at the last newline of the run of white space after the first).
MatchBlankLines(s, i) ==
    IF One(s, i, {"\n"}) = 0 THEN 0
    ELSE LET r == Run(s, i + 1, WhiteSpace)
             L[j \in 0..r] == IF j = 0 THEN 0 ELSE IF s[i + j] = "\n" THEN j ELSE L[j - 1]
         IN  IF L[r] = 0 THEN 0 ELSE L[r] + 1

\* read_text_from_file(path).  f is the file at the path:
\*   f.ext         os.path.splitext(path)[1].lower()
\*   f.readable    FALSE when opening or parsing it raises
\*   f.content     what f.read() returns (.txt, .md, .html, .htm)
\*   f.paragraphs  the texts of doc.paragraphs (.docx)
\*   f.soup_text   what soup.get_text('\n') returns once script and style are dropped (.html, .htm)
\* The result is the (text, kind) pair and the messagebox call made.
read_text_from_file(f) ==
    IF f.ext = ".docx" THEN
        IF ~Document THEN [text |-> << >>, kind |-> "", result |-> "missing_dependency", box |-> "showerror"]
        ELSE IF ~f.readable THEN [text |-> << >>, kind |-> "", result |-> "io_failure", box |-> "showerror"]
        ELSE [text |-> JoinLines(SelectSeq(f.paragraphs, LAMBDA p : Strip(p) # << >>)),
              kind |-> "docx", result |-> "done", box |-> "none"]
    ELSE IF f.ext \in {".txt", ".md"} THEN
        IF ~f.readable THEN [text |-> << >>, kind |-> "", result |-> "io_failure", box |-> "showerror"]
        ELSE [text |-> f.content, kind |-> "text", result |-> "done", box |-> "none"]
    ELSE IF f.ext \in {".html", ".htm"} THEN
        IF ~f.readable THEN [text |-> << >>, kind |-> "", result |-> "io_failure", box |-> "showerror"]
        ELSE LET text == IF BeautifulSoup THEN f.soup_text
                         ELSE ReSub(f.content, MatchTag, LAMBDA s, i, m : << >>)
             IN  [text |-> Strip(ReSub(text, MatchBlankLines, LAMBDA s, i, m : <<"\n", "\n">>)),
                  kind |-> "html", result |-> "done", box |-> "none"]
    ELSE [text |-> << >>, kind |-> "", result |-> "unsupported_format", box |-> "showwarning"]

\* An open that keeps the history of the document it replaces.
ui_open_keeps_history(path, f) ==
    IF path = ""
    THEN /\ op' = Ended("ui_open", "cancelled", "none")
         /\ UNCHANGED <<txt, undo_stack, pushes, current_path, current_kind, refs, imports,
                        limit, archive>>
    ELSE LET r == read_text_from_file(f)
         IN  IF r.kind = ""
             THEN /\ op' = Ended("ui_open", r.result, r.box)
                  /\ UNCHANGED <<txt, undo_stack, pushes, current_path, current_kind, refs,
                                 imports, limit, archive>>
             ELSE /\ Len(r.text) <= limit
                  /\ current_path' = path
                  /\ current_kind' = r.kind
                  /\ txt' = r.text
                  /\ op' = Ended("ui_open", "done", "none")
                  /\ UNCHANGED <<undo_stack, pushes, refs, imports, limit, archive>>

\* An open that records the path chosen before it reads the file.
ui_open_path_first(path, f) ==
    IF path = ""
    THEN /\ op' = Ended("ui_open", "cancelled", "none")
         /\ UNCHANGED <<txt, undo_stack, pushes, current_path, current_kind, refs, imports,
                        limit, archive>>
    ELSE LET r == read_text_from_file(f)
         IN  IF r.kind = ""
             THEN /\ op' = Ended("ui_open", r.result, r.box)
                  /\ current_path' = path
                  /\ UNCHANGED <<txt, undo_stack, pushes, current_kind, refs,
                                 imports, limit, archive>>
             ELSE /\ Len(r.text) <= limit
                  /\ current_path' = path
                  /\ current_kind' = r.kind
                  /\ undo_stack' = << >>
                  /\ pushes' = NoPushes
                  /\ txt' = r.text
                  /\ op' = Ended("ui_open", "done", "none")
                  /\ UNCHANGED <<refs, imports, limit, archive>>

\* ui_open.  path is what the file dialog returns ("" when it is cancelled).
ui_open(path, f) ==
    IF path = ""
    THEN /\ op' = Ended("ui_open", "cancelled", "none")
         /\ UNCHANGED <<txt, undo_stack, pushes, current_path, current_kind, refs, imports,
                        limit, archive>>
    ELSE LET r == read_text_from_file(f)
         IN  IF r.kind = ""
             THEN /\ op' = Ended("ui_open", r.result, r.box)
                  /\ UNCHANGED <<txt, undo_stack, pushes, current_path, current_kind, refs,
                                 imports, limit, archive>>
             ELSE /\ Len(r.text) <= limit
                  /\ current_path' = path
                  /\ current_kind' = r.kind
                  /\ undo_stack' = << >>
                  /\ pushes' = NoPushes
                  /\ txt' = r.text
                  /\ op' = Ended("ui_open", "done", "none")
                  /\ UNCHANGED <<refs, imports, limit, archive>>


\* What a mutating handler leaves alone.
session_rest == <<current_path, current_kind, imports, limit, archive>>

\* ui_clean_hidden
ui_clean_hidden ==
    /\ _replace_text(clean_hidden(Get(txt)))
    /\ op' = Ended("ui_clean_hidden", "done", "none")
    /\ UNCHANGED <<refs, session_rest>>

\* ui_normalize_whitespace
ui_normalize_whitespace ==
    /\ _replace_text(normalize_whitespace(Get(txt)))
    /\ op' = Ended("ui_normalize_whitespace", "done", "none")
    /\ UNCHANGED <<refs, session_rest>>

\* ui_remove_filename_lines
ui_remove_filename_lines ==
    /\ _replace_text(remove_filename_lines(Get(txt)).text)
    /\ op' = Ended("ui_remove_filename_lines", "done", "none")
    /\ UNCHANGED <<refs, session_rest>>

\* ui_quotes.  var_quotes is what the combobox holds when the button is pressed.
ui_quotes(var_quotes) ==
    /\ _replace_text(normalize_quotes(Get(txt), var_quotes))
    /\ op' = Ended("ui_quotes", "done", "none")
    /\ UNCHANGED <<refs, session_rest>>

\* ui_cite_norm
ui_cite_norm ==
    /\ _replace_text(citations_normalize(Get(txt)))
    /\ op' = Ended("ui_cite_norm", "done", "none")
    /\ UNCHANGED <<refs, session_rest>>

\* ui_cite_remove.  confirmed is the answer to messagebox.askyesno.
ui_cite_remove(confirmed) ==
    IF ~confirmed
    THEN /\ op' = Ended("ui_cite_remove", "declined", "askyesno")
         /\ UNCHANGED <<txt, undo_stack, pushes, refs, session_rest>>
    ELSE /\ _replace_text(citations_remove(Get(txt)))
         /\ op' = Ended("ui_cite_remove", "done", "askyesno")
         /\ UNCHANGED <<refs, session_rest>>

\* ui_links_strip.  save is what becomes of the references file: "cancelled"
\* (no path chosen), "done" (written) or "io_failure" (open or write raises);
\* without URLs there is no dialog and save is "none".
ui_links_strip(save) ==
    LET r == links_strip_and_collect(Get(txt))
    IN  /\ save = "none" <=> r.refs = << >>
        /\ _replace_text(r.text)
        /\ refs' = r.refs
        /\ op' = Ended("ui_links_strip", IF save = "none" THEN "done" ELSE save,
                       IF save = "io_failure" THEN "showerror" ELSE "none")
        /\ UNCHANGED session_rest

\* ui_translate(src).  glossary is the file chosen in the dialog.
ui_translate(src, glossary) ==
    IF Strip(Get(txt)) = << >>
    THEN /\ glossary.kind = "none"
         /\ op' = Ended("ui_translate", "empty", "showwarning")
         /\ UNCHANGED <<txt, undo_stack, pushes, refs, session_rest>>
    ELSE /\ _replace_text(translate_simple(Get(txt), src, glossary))
         /\ op' = Ended("ui_translate", "done", "none")
         /\ UNCHANGED <<refs, session_rest>>

\* ui_scan
ui_scan ==
    /\ op' = Ended("ui_scan", "done",
                   IF scan_issues(Get(txt)) = << >> THEN "showinfo" ELSE "showwarning")
    /\ UNCHANGED <<txt, undo_stack, pushes, refs, session_rest>>

\* A keyword export that leaves the text it analysed, stripped, in the widget.
ui_keywords_strips(save) ==
    /\ IF Strip(Get(txt)) = << >>
       THEN /\ save = "none"
            /\ op' = Ended("ui_keywords", "empty", "showwarning")
            /\ UNCHANGED <<txt, undo_stack, pushes>>
       ELSE /\ save # "none"
            /\ _replace_text(Strip(Get(txt)))
            /\ op' = Ended("ui_keywords", save, IF save = "io_failure" THEN "showerror" ELSE "none")
    /\ UNCHANGED <<refs, session_rest>>

\* ui_keywords.  save is what becomes of the CSV file, as for ui_links_strip;
\* keyword_stats(text, topk=50) goes to that file and nowhere else.
ui_keywords(save) ==
    /\ IF Strip(Get(txt)) = << >>
       THEN /\ save = "none"
            /\ op' = Ended("ui_keywords", "empty", "showwarning")
       ELSE /\ save # "none"
            /\ op' = Ended("ui_keywords", save, IF save = "io_failure" THEN "showerror" ELSE "none")
    /\ UNCHANGED <<txt, undo_stack, pushes, refs, session_rest>>

\* ui_toc
ui_toc ==
    /\ op' = Ended("ui_toc", IF toc_detect(Get(txt)) = << >> THEN "no_headings" ELSE "done", "showinfo")
    /\ UNCHANGED <<txt, undo_stack, pushes, refs, session_rest>>

\* ui_export_html.  save is what becomes of the HTML file.
ui_export_html(save) ==
    /\ IF Strip(Get(txt)) = << >>
       THEN /\ save = "none"
            /\ op' = Ended("ui_export_html", "empty", "showwarning")
       ELSE /\ save # "none"
            /\ op' = Ended("ui_export_html", save, IF save = "io_failure" THEN "showerror" ELSE "none")
    /\ UNCHANGED <<txt, undo_stack, pushes, refs, session_rest>>

\* ui_export_docx.  save is what becomes of the DOCX file.
ui_export_docx(save) ==
    /\ IF ~Document
       THEN /\ save = "none"
            /\ op' = Ended("ui_export_docx", "missing_dependency", "showerror")
       ELSE IF Strip(Get(txt)) = << >>
       THEN /\ save = "none"
            /\ op' = Ended("ui_export_docx", "empty", "showwarning")
       ELSE /\ save # "none"
            /\ op' = Ended("ui_export_docx", save, IF save = "io_failure" THEN "showerror" ELSE "none")
    /\ UNCHANGED <<txt, undo_stack, pushes, refs, session_rest>>


(***************************************************************************)
(* The archive patcher.  An archive is the sequence of its entries, in the *)
(* order of ZipFile.infolist(); an entry is                                *)
(*   filename       its path (ZipInfo.filename), a text                    *)
(*   compress_type  ZipInfo.compress_type                                  *)
(*   data           its bytes: characters (each one the UTF-8 encoding of  *)
(*                  itself) and bytes that are no valid UTF-8              *)
(*   crc_ok         FALSE when reading the entry raises (a bad CRC)        *)
(***************************************************************************)
\* ZipInfo.compress_type: zipfile.ZIP_STORED and zipfile.ZIP_DEFLATED.
ZIP_STORED == 0
ZIP_DEFLATED == 8

\* Bytes that utf-8 cannot decode.
InvalidBytes == {"0xFF", "0xC0"}

\* data.decode('utf-8', errors='ignore')
Decode(data) == SelectSeq(data, LAMBDA b : b \notin InvalidBytes)
\* xml.encode('utf-8')
Encode(xml) == xml

S_word == <<"w","o","r","d","/">>
S_header == <<"h","e","a","d","e","r">>
S_footer == <<"f","o","o","t","e","r">>
S_dot_xml == <<".","x","m","l">>
S_document_xml == <<"d","o","c","u","m","e","n","t",".","x","m","l">>
S_pict_open == <<"<","w",":","p","i","c","t">>
S_pict_close == <<"<","/","w",":","p","i","c","t",">">>
S_shape_open == <<"<","v",":","s","h","a","p","e">>
S_shape_close == <<"<","/","v",":","s","h","a","p","e",">">>
S_drawing_open == <<"<","w",":","d","r","a","w","i","n","g">>
S_drawing_close == <<"<","/","w",":","d","r","a","w","i","n","g",">">>
S_watermark == <<"w","a","t","e","r","m","a","r","k">>
S_text_shadow == <<"m","s","o","-","t","e","x","t","-","s","h","a","d","o","w">>
S_opacity == <<"o","p","a","c","i","t","y">>

\* re.search(r'word/(header\d+\.xml|footer\d+\.xml|document\.xml)$', filename)
IsDocumentPart(filename) ==
    \E i \in 1..Len(filename) :
        LET w == Lit(filename, i, S_word)
        IN  Len(filename) + 1 \in
                { Lit(filename, Plus(filename, Lit(filename, w, S_header), Digits), S_dot_xml),
                  Lit(filename, Plus(filename, Lit(filename, w, S_footer), Digits), S_dot_xml),
                  Lit(filename, w, S_document_xml) }

\* The first position >= p where the text w starts (0: nowhere).
Find(s, p, w) ==
    LET F[j \in 1..(Len(s) + 1)] ==
            IF j > Len(s) THEN 0 ELSE IF Lit(s, j, w) # 0 THEN j ELSE F[j + 1]
    IN  IF p = 0 THEN 0 ELSE F[p]

\* open[\s\S]*?close
MatchElement(s, i, open, close) ==
    LET e == Find(s, Lit(s, i, open), close)
    IN  IF e = 0 THEN 0 ELSE e + Len(close) - i

\* re.search(r'watermark|mso-text-shadow|opacity', block, flags=re.IGNORECASE)
LooksLikeWatermark(block) ==
    \E j \in 1..Len(block) :
        \E w \in {S_watermark, S_text_shadow, S_opacity} : LitI(block, j, w) # 0

\* filter_drawing
filter_drawing(block) == IF LooksLikeWatermark(block) THEN << >> ELSE block

\* The body of the inner try of remove_docx_watermark: the bytes written for a document part.
patch_document_part(data) ==
    LET xml == Decode(data)
        x1 == ReSub(xml, LAMBDA s, i : MatchElement(s, i, S_pict_open, S_pict_close),
                    LAMBDA s, i, m : << >>)
        x2 == ReSub(x1, LAMBDA s, i : MatchElement(s, i, S_shape_open, S_shape_close),
                    LAMBDA s, i, m : << >>)
        x3 == ReSub(x2, LAMBDA s, i : MatchElement(s, i, S_drawing_open, S_drawing_close),
                    LAMBDA s, i, m : filter_drawing(SubSeq(s, i, i + m - 1)))
    IN  Encode(x3)

\* zin.read(name) reads the entry zin.getinfo(name): ZipFile keeps one entry per name in NameToInfo, the last
\* one of the central directory.
zin_read(entries, name) ==
    entries[CHOOSE k \in 1..Len(entries) :
                /\ entries[k].filename = name
                /\ \A j \in (k + 1)..Len(entries) : entries[j].filename # name]

\* A writestr that is given the name alone, and so compresses as zout does.
writestr_by_name(item, data) ==
    [filename |-> item.filename, compress_type |-> ZIP_DEFLATED, data |-> data, crc_ok |-> TRUE]

\* zout.writestr(item, data): the entry written has item's name and
\* compression, and the data given.
writestr(item, data) ==
    [filename |-> item.filename, compress_type |-> item.compress_type,
     data |-> data, crc_ok |-> TRUE]

\* remove_docx_watermark(in_path, out_path), for the archive at in_path:
\* the entries written to out_path, and how the call ended.  ok is FALSE when
\* zipfile.ZipFile(in_path) raises; raises holds the indices of the entries
\* for which the body of the inner try raises (its except clause takes any
\* Exception and leaves data as it was read).
remove_docx_watermark(ok, entries, raises) ==
    LET Loop[k \in 0..Len(entries)] ==
            IF k = 0 THEN [out |-> << >>, result |-> "done"]
            ELSE LET before == Loop[k - 1]
                     item == entries[k]
                     read == zin_read(entries, item.filename)
                 IN  IF before.result # "done" THEN before
                     ELSE IF ~read.crc_ok THEN [out |-> before.out, result |-> "io_failure"]
                     ELSE [out |-> Append(before.out,
                                          writestr(item, IF IsDocumentPart(item.filename)
                                                            /\ k \notin raises
                                                         THEN patch_document_part(read.data)
                                                         ELSE read.data)),
                           result |-> "done"]
    IN  IF ~ok THEN [out |-> << >>, result |-> "io_failure"] ELSE Loop[Len(entries)]

\* ui_nowm.  choice is what the two file dialogs give: "cancel_open",
\* "cancel_save", or "run" with the archive a at the path chosen.
ui_nowm(choice, a) ==
    /\ IF choice # "run"
       THEN /\ op' = Ended("ui_nowm", "cancelled", "none")
            /\ UNCHANGED archive
       ELSE LET r == remove_docx_watermark(a.ok, a.entries, a.raises)
            IN  /\ zin' = a
                /\ zout' = r.out
                /\ op' = Ended("ui_nowm", r.result,
                               IF r.result = "done" THEN "none" ELSE "showerror")
    /\ UNCHANGED <<txt, undo_stack, pushes, refs, current_path, current_kind, imports, limit>>


(***************************************************************************)
(* The files of the model, and the specifications.                         *)
(***************************************************************************)
File(path, ext, readable, content, paragraphs, soup_text) ==
    [path |-> path, ext |-> ext, readable |-> readable, content |-> content,
     paragraphs |-> paragraphs, soup_text |-> soup_text]

NoFile == File("", "", FALSE, << >>, << >>, << >>)

\* The files the open dialog of Spec offers.
Files ==
    { File("paper.docx", ".docx", TRUE, << >>, << <<"a", " ", ".">>, <<" ">> >>, << >>),
      File("page.html", ".html", TRUE, <<"<", "p", ">", "b">>, << >>, <<"b">>) }

\* The glossary files the dialog of ui_translate offers.
Glossaries ==
    { [kind |-> "none"],
      [kind |-> "dict", pairs |-> << << <<"b">>, <<"c">> >> >>] }

SaveOutcomes == {"none", "cancelled", "done", "io_failure"}

NoArchive == [ok |-> FALSE, entries |-> << >>, raises |-> {}]

\* __init__.  Document and BeautifulSoup are bound when the module is
\* imported: each is None when its package is not installed.
InitSession ==
    /\ txt = << >>
    /\ undo_stack = << >>
    /\ current_path = ""
    /\ current_kind = ""
    /\ refs = << >>
    /\ op = Ended("__init__", "done", "none")
    /\ pushes = NoPushes
    /\ zin = NoArchive
    /\ zout = << >>

\* Spec: a session of editing, with both packages installed.
Init ==
    /\ InitSession
    /\ Document = TRUE
    /\ BeautifulSoup = TRUE
    /\ limit = MaxTextLen

Next ==
    \/ \E f \in Files : ui_open(f.path, f)
    \/ ui_open("", NoFile)
    \/ undo_action
    \/ ui_clean_hidden
    \/ ui_remove_filename_lines
    \/ ui_normalize_whitespace
    \/ \E var_quotes \in {"vni", "ieee"} : ui_quotes(var_quotes)
    \/ ui_cite_norm
    \/ \E confirmed \in BOOLEAN : ui_cite_remove(confirmed)
    \/ \E save \in SaveOutcomes : ui_links_strip(save)
    \/ \E src \in {"en", "ja"} : \E glossary \in Glossaries : ui_translate(src, glossary)

Spec == Init /\ [][Next]_vars


\* The files the open dialog of SpecReport offers.
ReportFiles ==
    { File("links.md", ".md", TRUE, <<"h", "t", "t", "p", ":", "/", "/", "a">>, << >>, << >>),
      File("page.html", ".html", TRUE,
           <<"<", "p", ">", "1", ".", " ", "A", "\n", "b", ",", "c">>, << >>,
           <<"1", ".", " ", "A", "\n", "b", ",", "c">>),
      File("broken.docx", ".docx", FALSE, << >>, << >>, << >>),
      File("scan.pdf", ".pdf", TRUE, << >>, << >>, << >>) }

\* SpecReport: a session of link stripping, analysis and export, without
\* bs4 and with or without python-docx.
InitReport ==
    /\ InitSession
    /\ Document \in BOOLEAN
    /\ BeautifulSoup = FALSE
    /\ limit = MaxReportLen

NextReport ==
    \/ \E f \in ReportFiles : ui_open(f.path, f)
    \/ ui_open("", NoFile)
    \/ undo_action
    \/ \E save \in SaveOutcomes : ui_links_strip(save)
    \/ ui_scan
    \/ \E save \in SaveOutcomes : ui_keywords(save)
    \/ ui_toc
    \/ \E save \in SaveOutcomes : ui_export_html(save)
    \/ \E save \in SaveOutcomes : ui_export_docx(save)

SpecReport == InitReport /\ [][NextReport]_vars


(***************************************************************************)
(* The archives ui_nowm is given: every sequence of at most MaxEntries     *)
(* entries, that zipfile can open or not.                                  *)
(***************************************************************************)
MaxEntries == 2

S_a_bin == <<"a", ".", "b", "i", "n">>
S_word_document_xml == S_word \o S_document_xml

\* Bytes without markup, and a legacy picture followed by a byte that is no UTF-8.
PlainData == <<"x">>
PictData == S_pict_open \o <<">", "x">> \o S_pict_close \o <<"y", "0xFF">>

\* The entries: a.bin with either data, word/document.xml with the picture,
\* stored or deflated; and an a.bin that cannot be read (it has no data to
\* speak of).
Entries ==
    [filename : {S_a_bin}, compress_type : {ZIP_STORED, ZIP_DEFLATED},
     data : {PlainData, PictData}, crc_ok : {TRUE}]
    \cup [filename : {S_word_document_xml}, compress_type : {ZIP_STORED, ZIP_DEFLATED},
          data : {PictData}, crc_ok : {TRUE}]
    \cup [filename : {S_a_bin}, compress_type : {ZIP_DEFLATED}, data : {<< >>}, crc_ok : {FALSE}]

\* A file that is no zip archive has no entries.
Archives ==
    [ok : {TRUE}, entries : UNION { [1..n -> Entries] : n \in 0..MaxEntries }, raises : {{}}]
    \cup {NoArchive}

\* SpecArchive: a session of archive patching.
InitArchive ==
    /\ InitSession
    /\ Document = TRUE
    /\ BeautifulSoup = TRUE
    /\ limit = MaxTextLen

NextArchive ==
    \/ \E a \in Archives : ui_nowm("run", a)
    \/ ui_nowm("cancel_open", NoArchive)
    \/ ui_nowm("cancel_save", NoArchive)

SpecArchive == InitArchive /\ [][NextArchive]_vars


(***************************************************************************)
(* Properties of the edit history (Spec).                                  *)
(***************************************************************************)
\* <<n - 1, ..., 1, 0>>: the ages of the n most recent pushes, oldest first.
MostRecent(n) == [k \in 1..n |-> n - k]

\* C1: the history never holds more than max_undo snapshots; and while
\* snapshots were only pushed since the history was last empty, it holds the
\* min(n, max_undo) most recent of the n pushed, oldest first: after
\* max_undo + 5 pushes exactly max_undo entries, the max_undo most recent.
C1_HistoryBound ==
    /\ Len(undo_stack) <= max_undo
    /\ pushes # Popped =>
          /\ Len(undo_stack) = Min(pushes.n, max_undo)
          /\ pushes.ages = MostRecent(Len(undo_stack))
    /\ pushes.n = max_undo + 5 =>
          /\ Len(undo_stack) = max_undo
          /\ pushes.ages = MostRecent(max_undo)

\* max_undo + 5 snapshots were pushed onto an empty history, and nothing popped.
C1_Witness ==
    /\ pushes.n = max_undo + 5
    /\ Len(undo_stack) = max_undo
    /\ \E k \in 1..(Len(undo_stack) - 1) : undo_stack[k] # undo_stack[k + 1]

\* C2: an undo on a non-empty history makes the most recent snapshot the
\* content of the widget and removes that snapshot alone: the older ones stay
\* as they were, in order, and the text undone is kept nowhere (no other part
\* of the session changes), so that the next undo gives the next older
\* snapshot.
C2_UndoPopsMostRecent ==
    [][ (op'.name = "undo_action" /\ undo_stack # << >>) =>
            /\ op'.result = "done"
            /\ txt' = Last(undo_stack)
            /\ undo_stack' = Front(undo_stack)
            /\ UNCHANGED <<current_path, current_kind, refs, imports, archive>> ]_vars

\* An undo has just popped a snapshot off a history that held older ones.
C2_Witness ==
    /\ op = Ended("undo_action", "done", "none")
    /\ undo_stack # << >>
    /\ txt # Last(undo_stack)

\* C3: an undo on an empty history reports that there is nothing to undo, in
\* an information box and not an error box, and leaves the text of the widget
\* and the empty history as they are.
C3_UndoOnEmpty ==
    [][ (op'.name = "undo_action" /\ undo_stack = << >>) =>
            /\ op' = Ended("undo_action", "nothing_to_undo", "showinfo")
            /\ txt' = txt
            /\ undo_stack' = << >> ]_vars

\* An undo found the history empty while the widget held a document.
C3_Witness ==
    /\ op = Ended("undo_action", "nothing_to_undo", "showinfo")
    /\ undo_stack = << >>
    /\ Strip(txt) # << >>

\* The handlers that rewrite the text of the widget.
Transformations ==
    {"ui_clean_hidden", "ui_remove_filename_lines", "ui_normalize_whitespace", "ui_quotes",
     "ui_cite_norm", "ui_cite_remove", "ui_links_strip", "ui_translate"}

\* A step of a transformation that went on to replace the text: ui_cite_remove
\* stops when the question is declined, ui_translate when there is no text.
Committed == op'.name \in Transformations /\ op'.result \notin {"declined", "empty"}

\* C4: every transformation pushes the text it read from the widget when it
\* started: right after it the most recent snapshot is that text, and the
\* history is one entry longer unless it was at its bound (then it is still
\* at its bound, the older snapshots having moved down by one).
C4_PushBeforeCommit ==
    [][ Committed =>
            /\ Last(undo_stack') = Get(txt)
            /\ Len(undo_stack') = IF Len(undo_stack) < max_undo THEN Len(undo_stack) + 1
                                  ELSE max_undo
            /\ Front(undo_stack') = IF Len(undo_stack) < max_undo THEN undo_stack
                                    ELSE Tail(undo_stack) ]_vars

\* A transformation has changed the text, and the snapshot it took is not the new text.
C4_Witness ==
    /\ op.name \in Transformations
    /\ op.result = "done"
    /\ Len(undo_stack) = max_undo
    /\ Last(undo_stack) # Get(txt)

\* C5: right after a successful open the history is empty (and counts as
\* empty: no push is remembered), so that an undo then reports nothing to undo
\* and leaves the text of the new document in place.
C5_OpenClearsHistory ==
    [][ /\ (op'.name = "ui_open" /\ op'.result = "done") =>
               undo_stack' = << >> /\ pushes' = NoPushes
        /\ (op.name = "ui_open" /\ op.result = "done" /\ op'.name = "undo_action") =>
               op'.result = "nothing_to_undo" /\ txt' = txt ]_vars

\* An undo right after the open of a document found nothing to undo.
C5_Witness ==
    /\ op = Ended("undo_action", "nothing_to_undo", "showinfo")
    /\ current_path = "page.html"
    /\ txt = <<"b">>


(***************************************************************************)
(* Properties of failures and of the analysis handlers (SpecReport).       *)
(***************************************************************************)
\* How a handler ends when it reports a format, IO or parse failure.
Failures == {"unsupported_format", "missing_dependency", "io_failure"}

\* C6: an open that fails (extension not recognised, docx package missing,
\* file unreadable) or is cancelled leaves the text of the widget, the
\* history, current_path and current_kind exactly as they were.
C6_FailedOpenTouchesNothing ==
    [][ (op'.name = "ui_open" /\ op'.result \in Failures \cup {"cancelled"}) =>
            UNCHANGED <<txt, undo_stack, pushes, current_path, current_kind>> ]_vars

\* An open has failed while a document with a history was loaded.
C6_Witness ==
    /\ op.name = "ui_open"
    /\ op.result \in Failures
    /\ current_path # ""
    /\ undo_stack # << >>
    /\ Strip(txt) # << >>

\* C7: whenever a handler ends by reporting a format, IO or parse failure
\* (ui_open, ui_links_strip writing the references file, ui_keywords,
\* ui_export_html, ui_export_docx), the text of the widget is what it was
\* before the handler ran.
C7_FailureKeepsBuffer ==
    [][ op'.result \in Failures => txt' = txt ]_vars

\* C8: ui_scan, ui_keywords and ui_toc, whatever they report and whatever
\* becomes of the CSV file, leave the text of the widget and the history
\* unchanged.
C8_AnalysisReadOnly ==
    [][ op'.name \in {"ui_scan", "ui_keywords", "ui_toc"} =>
            UNCHANGED <<txt, undo_stack, pushes>> ]_vars

\* The keyword CSV could not be written, for a document with a history.
C8_Witness ==
    /\ op = Ended("ui_keywords", "io_failure", "showerror")
    /\ undo_stack # << >>
    /\ Strip(txt) # << >>

(***************************************************************************)
(* Properties of the archive patcher (SpecArchive).  zin is the archive    *)
(* the last run read and zout the entries it wrote.                        *)
(***************************************************************************)
\* The last run of remove_docx_watermark went through every entry.
Rewritten == op = Ended("ui_nowm", "done", "none")

\* C9: a rewrite that completes writes one entry for each entry of the
\* input, in the order of the input, under the same path and with the same
\* compression method.
C9_EntriesKept ==
    Rewritten =>
        /\ Len(zout) = Len(zin.entries)
        /\ \A k \in 1..Len(zout) :
              /\ zout[k].filename = zin.entries[k].filename
              /\ zout[k].compress_type = zin.entries[k].compress_type

\* An archive of a stored and a deflated entry was rewritten, a document part
\* of it with other bytes.
C9_Witness ==
    /\ Rewritten
    /\ Len(zin.entries) = MaxEntries
    /\ \E j, k \in 1..Len(zin.entries) :
          /\ zin.entries[j].compress_type = ZIP_STORED
          /\ zin.entries[k].compress_type = ZIP_DEFLATED
          /\ zout[k].data # zin.entries[k].data

\* C10: for every entry whose path is no document part (and whose bytes can
\* be read), the bytes written for it are the bytes of that entry in the
\* input, whatever the archive, one where several entries share a path
\* included.
C10_OtherEntriesSameBytes ==
    Rewritten =>
        \A k \in 1..Len(zin.entries) :
            (/\ k <= Len(zout)
             /\ zin.entries[k].crc_ok
             /\ ~IsDocumentPart(zin.entries[k].filename)) =>
                zout[k].data = zin.entries[k].data


(***************************************************************************)
(* SpecPatch: one run of the patcher on a document.  The archive holds     *)
(* word/document.xml, alone or with one other entry; the bytes of the      *)
(* document are up to MaxParts pieces of markup, one after the other.      *)
(***************************************************************************)
\* The number of pieces an input (the bytes of a document, a text) is made of.
MaxParts == 2

\* The pieces of an input, one after the other.
Flatten(parts) ==
    LET F[k \in 0..Len(parts)] == IF k = 0 THEN << >> ELSE F[k - 1] \o parts[k]
    IN  F[Len(parts)]

\* The document parts of an archive, by index.
DocumentParts(entries) == { k \in 1..Len(entries) : IsDocumentPart(entries[k].filename) }

\* The archives of SpecPatch.  The pieces of the document's bytes: text, a
\* byte that is no UTF-8, a legacy picture, a shape, a drawing without a hint,
\* a drawing with a hint (in mixed case), and a drawing around a legacy
\* picture.  The entry beside the document: a.bin, a header with a watermark,
\* or a footer that cannot be read.  raises is any set of document parts.
PatchArchives ==
    LET Drawing(content) == S_drawing_open \o <<">">> \o content \o S_drawing_close
        Pict(content) == S_pict_open \o <<">">> \o content \o S_pict_close
        pieces == { <<"x">>,
                    <<"0xFF">>,
                    Pict(<<"x">>),
                    S_shape_open \o <<">", "x">> \o S_shape_close,
                    Drawing(<<"x">>),
                    Drawing(<<"O", "p", "a", "c", "i", "t", "y">>),
                    Drawing(Pict(S_watermark)) }
        datas == { Flatten(parts) : parts \in UNION { [1..n -> pieces] : n \in 1..MaxParts } }
        document == { [filename |-> S_word_document_xml, compress_type |-> ZIP_DEFLATED,
                       data |-> d, crc_ok |-> TRUE] : d \in datas }
        others ==
            { [filename |-> S_a_bin, compress_type |-> ZIP_STORED, data |-> PlainData,
               crc_ok |-> TRUE],
              [filename |-> S_word \o S_header \o <<"1">> \o S_dot_xml,
               compress_type |-> ZIP_DEFLATED, data |-> Drawing(S_text_shadow), crc_ok |-> TRUE],
              [filename |-> S_word \o S_footer \o <<"2">> \o S_dot_xml,
               compress_type |-> ZIP_DEFLATED, data |-> PictData, crc_ok |-> FALSE] }
        shapes == { <<e>> : e \in document }
                  \cup { <<e, o>> : e \in document, o \in others }
                  \cup { <<o, e>> : e \in document, o \in others }
    IN  UNION { { [ok |-> TRUE, entries |-> e, raises |-> r] : r \in SUBSET DocumentParts(e) }
                : e \in shapes }

\* zin is, from the start, the archive at the path the user will choose.
InitPatch ==
    /\ txt = << >>
    /\ undo_stack = << >>
    /\ current_path = ""
    /\ current_kind = ""
    /\ refs = << >>
    /\ op = Ended("__init__", "done", "none")
    /\ pushes = NoPushes
    /\ Document = TRUE
    /\ BeautifulSoup = TRUE
    /\ limit = MaxTextLen
    /\ zin \in PatchArchives
    /\ zout = << >>

NextPatch ==
    \/ ui_nowm("run", zin)
    \/ ui_nowm("cancel_open", zin)
    \/ ui_nowm("cancel_save", zin)

SpecPatch == InitPatch /\ [][NextPatch]_vars

(***************************************************************************)
(* Properties of the patching of document parts (SpecPatch).               *)
(***************************************************************************)
\* The last call of ui_nowm ran the patcher on zin (to its end or not).
Ran == op.name = "ui_nowm" /\ op.result # "cancelled"

\* What the run would have written had entry k given no trouble.
WithoutFailure(k) ==
    remove_docx_watermark(zin.ok, [zin.entries EXCEPT ![k].crc_ok = TRUE], zin.raises \ {k}).out

DrawingElements(data) ==
    ReFindAll(data, LAMBDA s, i : MatchElement(s, i, S_drawing_open, S_drawing_close))

\* C12: in a document part that was patched, the drawing elements of the
\* output are the drawing elements of the input that contain none of the
\* hints (watermark, mso-text-shadow, opacity, in any letter case), each
\* exactly as in the input and in the order of the input: one with a hint is
\* deleted as a whole, one without is untouched.
C12_DrawingDeletedIffHint ==
    Rewritten =>
        \A k \in DocumentParts(zin.entries) \ zin.raises :
            DrawingElements(zout[k].data) =
                SelectSeq(DrawingElements(zin.entries[k].data),
                          LAMBDA block : ~LooksLikeWatermark(block))

(***************************************************************************)
(* SpecTranslate: translations of a text of up to MaxParts words, with the *)
(* glossary files the dialog may give.                                     *)
(***************************************************************************)
S_table == <<"t", "a", "b", "l", "e">>

\* No glossary, a file that is no JSON, {"table": "X"}, {"Table": "X"},
\* {"tables": "table"}, and the JSON array [["table", "X"]].
TranslateGlossaries ==
    { [kind |-> "none"],
      [kind |-> "unreadable"],
      [kind |-> "dict", pairs |-> << <<S_table, <<"X">>>> >>],
      [kind |-> "dict", pairs |-> << <<<<"T">> \o Tail(S_table), <<"X">>>> >>],
      [kind |-> "dict", pairs |-> << <<S_table \o <<"s">>, S_table>> >>],
      [kind |-> "list", pairs |-> << <<S_table, <<"X">>>> >>] }

\* The texts: words of both dictionaries, in either case, a letter and a blank.
TranslateTexts ==
    LET words == { S_table, <<"T">> \o Tail(S_table), <<"s">>, <<" ">>, <<"U+8868">> }
        texts == { Flatten(parts) : parts \in UNION { [1..n -> words] : n \in 1..MaxParts } }
    IN  { t \in texts : Len(t) <= MaxReportLen }

InitTranslate ==
    /\ txt \in TranslateTexts
    /\ undo_stack = << >>
    /\ current_path = ""
    /\ current_kind = ""
    /\ refs = << >>
    /\ op = Ended("__init__", "done", "none")
    /\ pushes = NoPushes
    /\ Document = TRUE
    /\ BeautifulSoup = TRUE
    /\ limit = MaxReportLen
    /\ zin = NoArchive
    /\ zout = << >>

NextTranslate ==
    \E src \in {"en", "ja"} : \E glossary \in TranslateGlossaries : ui_translate(src, glossary)

SpecTranslate == InitTranslate /\ [][NextTranslate]_vars

(***************************************************************************)
(* Properties of translate_simple (SpecTranslate).  A step of ui_translate *)
(* that replaced the text was made with a language src and a glossary g    *)
(* for which the new text is translate_simple of the text read.            *)
(***************************************************************************)
\* The step is a translation made with src and g.
TranslatedWith(src, g) ==
    /\ op'.name = "ui_translate"
    /\ op'.result = "done"
    /\ txt' = translate_simple(Get(txt), src, g)

\* white is white space all through.
IsBlank(white) == \A k \in 1..Len(white) : white[k] \in WhiteSpace

\* Wherever key stands in text (in any letter case) with nothing but white
\* space around it, out is text with value in its place.
ReplacedWhereAlone(text, key, value, out) ==
    \A i \in 1..Len(text) :
        (/\ MatchKey(text, i, key) > 0
         /\ IsBlank(SubSeq(text, 1, i - 1))
         /\ IsBlank(SubSeq(text, i + Len(key), Len(text)))) =>
            out = SubSeq(text, 1, i - 1) \o value \o SubSeq(text, i + Len(key), Len(text))

\* C13: a glossary entry whose key is a key of the base dictionary up to
\* letter case overrides it: where that phrase stands in the text (alone, in
\* any letter case), the translation has the value of the glossary, not that
\* of the base dictionary.
C13_GlossaryOverridesBase ==
    [][ \A src \in {"en", "ja"} : \A g \in TranslateGlossaries :
            (g.kind = "dict" /\ TranslatedWith(src, g)) =>
                LET base == merged_dict(src, [kind |-> "none"])
                IN  \A n \in 1..Len(g.pairs) : \A m \in 1..Len(base) :
                        Lower(g.pairs[n][1]) = Lower(base[m][1]) =>
                            ReplacedWhereAlone(Get(txt), base[m][1], g.pairs[n][2], txt') ]_vars

\* key stands somewhere in text, in any letter case.
OccursIn(key, text) == \E i \in 1..Len(text) : MatchKey(text, i, key) > 0

\* C14: when a key of the dictionary is part of a longer key, an occurrence
\* of the longer key in the text (alone, in any letter case) is replaced as
\* a whole: the translation has the longer key's value in its place, and
\* nothing the shorter key made of it.
C14_LongerKeyWins ==
    [][ \A src \in {"en", "ja"} : \A g \in TranslateGlossaries :
            TranslatedWith(src, g) =>
                LET d == merged_dict(src, g)
                IN  \A long, short \in 1..Len(d) :
                        (Len(d[short][1]) < Len(d[long][1]) /\ OccursIn(d[short][1], d[long][1])) =>
                            ReplacedWhereAlone(Get(txt), d[long][1], d[long][2], txt') ]_vars

\* C15: with a glossary file that is no flat mapping of strings to strings
\* (no JSON at all, or a JSON array), the translation is the one made without
\* any glossary.
C15_MalformedGlossaryIgnored ==
    [][ \A src \in {"en", "ja"} : \A g \in TranslateGlossaries :
            (g.kind \in {"unreadable", "list"} /\ TranslatedWith(src, g)) =>
                txt' = translate_simple(Get(txt), src, [kind |-> "none"]) ]_vars

(***************************************************************************)
(* SpecText: the cleaning buttons pressed on a text of up to MaxParts       *)
(* pieces (lines and blanks, or links) that is no longer than the sentence *)
(* "Hello ,world..This  is   a test (Smith,2020).", or on that sentence.   *)
(***************************************************************************)
\* The number of texts a session of SpecText replaces.
MaxPresses == 2

S_sentence ==
    <<"H", "e", "l", "l", "o", " ", ",", "w", "o", "r", "l", "d", ".", ".",
      "T", "h", "i", "s", " ", " ", "i", "s", " ", " ", " ", "a", " ",
      "t", "e", "s", "t", " ", "(", "S", "m", "i", "t", "h", ",",
      "2", "0", "2", "0", ")", ".">>

\* The pieces: a letter, with a blank or three newlines before it, a tab, a
\* no-break space and a zero-width space; http://a, https://b and http://
\* with a blank after them, and <a href="http://a">x</a>.
Texts ==
    LET url_a == <<"h", "t", "t", "p", ":", "/", "/", "a">>
        lines == { <<"a">>, <<" ", "a">>, <<"\n", "\n", "\n", "a">>,
                   <<"\t">>, <<NBSP>>, <<"U+200B">> }
        links == { url_a \o <<" ">>,
                   <<"h", "t", "t", "p", "s", ":", "/", "/", "b", " ">>,
                   <<"h", "t", "t", "p", ":", "/", "/", " ">>,
                   <<"<", "a", " ", "h", "r", "e", "f", "=", "\"">> \o url_a
                       \o <<"\"", ">", "x", "<", "/", "a", ">">> }
        Made(pieces) ==
            { Flatten(parts) : parts \in UNION { [1..n -> pieces] : n \in 1..MaxParts } }
    IN  { t \in Made(lines) \cup Made(links) : Len(t) <= Len(S_sentence) } \cup {S_sentence}

InitText ==
    /\ txt \in Texts
    /\ undo_stack = << >>
    /\ current_path = ""
    /\ current_kind = ""
    /\ refs = << >>
    /\ op = Ended("__init__", "done", "none")
    /\ pushes = NoPushes
    /\ Document = TRUE
    /\ BeautifulSoup = TRUE
    /\ limit = Len(Get(S_sentence))
    /\ zin = NoArchive
    /\ zout = << >>

\* Until MaxPresses texts have been replaced, any of the four buttons.
NextText ==
    \/ pushes.n < MaxPresses /\ ui_clean_hidden
    \/ pushes.n < MaxPresses /\ ui_normalize_whitespace
    \/ pushes.n < MaxPresses /\ \E confirmed \in BOOLEAN : ui_cite_remove(confirmed)
    \/ pushes.n < MaxPresses /\ \E save \in SaveOutcomes : ui_links_strip(save)

SpecText == InitText /\ [][NextText]_vars

(***************************************************************************)
(* Properties of the cleaning functions (SpecText).                        *)
(***************************************************************************)

\* C16: stripHiddenAndControl is idempotent: applied twice to a text it gives
\* what it gives applied once, and applied to the text ui_clean_hidden stored,
\* as stored or as the widget gives it back, it returns that text unchanged.
C16_CleanHiddenIdempotent ==
    [][ op'.name = "ui_clean_hidden" =>
            /\ clean_hidden(clean_hidden(txt)) = clean_hidden(txt)
            /\ clean_hidden(txt') = txt'
            /\ clean_hidden(Get(txt')) = txt' ]_vars

\* ui_clean_hidden has cleaned a text that held a tab, a no-break space or a
\* zero-width character, and left some of it.
C16_Witness ==
    /\ op.name = "ui_clean_hidden"
    /\ txt # << >>
    /\ undo_stack # << >>
    /\ \E k \in 1..Len(Last(undo_stack)) :
           Last(undo_stack)[k] \in ZeroWidthChars \cup {NBSP, "\t"}

\* The lengths of the runs of newlines of a text, from left to right.
NewlineRuns(text) ==
    LET runs == ReFindAll(text, LAMBDA s, i : Run(s, i, {"\n"}))
    IN  [k \in 1..Len(runs) |-> Len(runs[k])]

\* Every newline of the text stands between two lines that end and begin
\* with a visible character.
BetweenVisible(text) ==
    LET Visible(k) == /\ k \in 1..Len(text)
                      /\ text[k] \notin WhiteSpace \cup ControlChars \cup ZeroWidthChars
        Newline(k) == k \in 1..Len(text) /\ text[k] = "\n"
    IN  \A k \in 1..Len(text) :
            Newline(k) => /\ Newline(k - 1) \/ Visible(k - 1)
                          /\ Newline(k + 1) \/ Visible(k + 1)

\* C17: stripHiddenAndControl keeps the paragraphs: no line of its output
\* ends in a space or a tab, and where the newlines of the input stand between
\* visible characters, a run of three or more becomes two newlines and a
\* shorter run stays as it is.
C17_KeepsParagraphs ==
    [][ op'.name = "ui_clean_hidden" =>
            /\ \A k \in 1..Len(txt') : MatchTrailingBlank(txt', k) = 0
            /\ BetweenVisible(txt) =>
                   NewlineRuns(txt') = [k \in 1..Len(NewlineRuns(txt)) |->
                                            Min(NewlineRuns(txt)[k], 2)] ]_vars

\* C18: ui_normalize_whitespace on "Hello ,world..This  is   a test
\* (Smith,2020)." leaves "Hello, world.. This is a test (Smith,2020).": the
\* blank before the comma goes, a space follows the comma and the second
\* period, the runs of spaces become one space, and both periods stay.
C18_SentenceNormalized ==
    [][ (op'.name = "ui_normalize_whitespace" /\ txt = S_sentence) =>
            txt' = <<"H", "e", "l", "l", "o", ",", " ", "w", "o", "r", "l", "d",
                     ".", ".", " ", "T", "h", "i", "s", " ", "i", "s", " ", "a",
                     " ", "t", "e", "s", "t", " ", "(", "S", "m", "i", "t", "h",
                     ",", "2", "0", "2", "0", ")", ".">> ]_vars

\* The sentence has been normalised and the text shows a change.
C18_Witness ==
    /\ op.name = "ui_normalize_whitespace"
    /\ undo_stack # << >>
    /\ Last(undo_stack) = Get(S_sentence)
    /\ txt # S_sentence

\* C18 as stated: ui_normalize_whitespace on the sentence leaves
\* "Hello, world. This is a test (Smith,2020).", with one period after world.
C18_SentenceOnePeriod ==
    [][ (op'.name = "ui_normalize_whitespace" /\ txt = S_sentence) =>
            txt' = <<"H", "e", "l", "l", "o", ",", " ", "w", "o", "r", "l", "d",
                     ".", " ", "T", "h", "i", "s", " ", "i", "s", " ", "a",
                     " ", "t", "e", "s", "t", " ", "(", "S", "m", "i", "t", "h",
                     ",", "2", "0", "2", "0", ")", ".">> ]_vars

\* C19: ui_cite_remove on the sentence removes (Smith,2020) and the blank
\* before it and nothing else: "Hello ,world..This  is   a test." is left, up
\* to the newline the widget adds at the end.
C19_SentenceWithoutCitation ==
    [][ (op'.name = "ui_cite_remove" /\ op'.result = "done" /\ txt = S_sentence) =>
            Strip(txt') = <<"H", "e", "l", "l", "o", " ", ",", "w", "o", "r", "l", "d",
                            ".", ".", "T", "h", "i", "s", " ", " ", "i", "s",
                            " ", " ", " ", "a", " ", "t", "e", "s", "t", ".">> ]_vars

\* The URLs of a text, one for each place where one stands: bare, or in the
\* href of an anchor.
UrlsOf(text) == ReFindAll(text, MatchUrl)

\* The list ui_links_strip stores holds each URL of the text read once, in the
\* order in which the URLs first stand in that text.
RefsAreTheUrls ==
    LET found == UrlsOf(Get(txt))
        First(u) == CHOOSE k \in 1..Len(found) :
                        found[k] = u /\ \A j \in 1..(k - 1) : found[j] # u
    IN  /\ \A i, j \in 1..Len(refs') : i < j => refs'[i] # refs'[j]
        /\ Len(refs') = Cardinality({ found[k] : k \in 1..Len(found) })
        /\ \A i \in 1..Len(refs') : \E k \in 1..Len(found) : found[k] = refs'[i]
        /\ \A i, j \in 1..Len(refs') : i < j => First(refs'[i]) < First(refs'[j])

\* C20: linksStripAndCollect returns the URLs of the text without duplicates,
\* in the order of their first occurrence, as many as there are distinct URLs
\* (bare or in an href), and the text it returns holds no URL: no http:// or
\* https:// that a character of a URL follows.
C20_UrlsCollectedNoneLeft ==
    [][ op'.name = "ui_links_strip" =>
            /\ RefsAreTheUrls
            /\ UrlsOf(txt') = << >> ]_vars

\* ui_links_strip has stored a list that leaves out the second occurrence of
\* a URL.
C20_Witness ==
    /\ op.name = "ui_links_strip"
    /\ refs # << >>
    /\ undo_stack # << >>
    /\ Len(UrlsOf(Last(undo_stack))) > Len(refs)

\* C20 as stated: the list is as above and the text returned holds neither
\* "http://" nor "https://" anywhere.
C20_NoSchemeLeft ==
    [][ op'.name = "ui_links_strip" =>
            /\ RefsAreTheUrls
            /\ \A i \in 1..Len(txt') :
                   /\ Lit(txt', i, <<"h", "t", "t", "p", ":", "/", "/">>) = 0
                   /\ Lit(txt', i, <<"h", "t", "t", "p", "s", ":", "/", "/">>) = 0 ]_vars

(***************************************************************************)
(* SpecKeywords: the keyword export on a text of up to MaxParts pieces:    *)
(* "aaa ", "bbb bbb ", "Aaa,", the short word "ab ", the English stop word  *)
(* "the ", the Vietnamese stop word "các " and a blank.                    *)
(***************************************************************************)
\* The largest topk the statistics are asked for.
MaxTopK == 2

KeywordTexts ==
    LET pieces == { <<"a", "a", "a", " ">>, <<"b", "b", "b", " ", "b", "b", "b", " ">>,
                    <<"A", "a", "a", ",">>, <<"a", "b", " ">>, <<"t", "h", "e", " ">>,
                    <<"c", "U+00E1", "c", " ">>, <<" ">> }
    IN  { Flatten(parts) : parts \in UNION { [1..n -> pieces] : n \in 1..MaxParts } }

InitKeywords ==
    /\ txt \in KeywordTexts
    /\ undo_stack = << >>
    /\ current_path = ""
    /\ current_kind = ""
    /\ refs = << >>
    /\ op = Ended("__init__", "done", "none")
    /\ pushes = NoPushes
    /\ Document = TRUE
    /\ BeautifulSoup = TRUE
    /\ limit = MaxParts * MaxReportLen
    /\ zin = NoArchive
    /\ zout = << >>

NextKeywords == \E save \in SaveOutcomes : ui_keywords(save)

SpecKeywords == InitKeywords /\ [][NextKeywords]_vars

\* The tokens of a text that the statistics count: the runs of lower-case
\* letters and digits of the lowered text, without the stop words of the
\* language of the text (Vietnamese when more than a tenth of the runs hold an
\* accented letter) and without the runs of fewer than three characters.
FilteredTokens(text) ==
    LET tokens == ReFindAll(Lower(text), LAMBDA s, i : Run(s, i, KeywordChars))
        accented == { k \in 1..Len(tokens) :
                        \E j \in 1..Len(tokens[k]) : tokens[k][j] \in DictAccented }
        stop == IF 10 * Cardinality(accented) > Len(tokens) THEN STOP_VI ELSE STOP_EN
    IN  SelectSeq(tokens, LAMBDA w : w \notin stop /\ Len(w) >= 3)

C22_UndoRoundTrip ==
    [][ ( /\ op.name \in Transformations
          /\ op.result \notin {"declined", "empty"}
          /\ op'.name = "undo_action" ) =>
            /\ op'.result = "done"
            /\ Get(txt') = Last(undo_stack) ]_vars

(***************************************************************************)
(* The passes of translate_simple (SpecTranslate).                         *)
(***************************************************************************)

\* out is text with some occurrences of keys of d replaced by their values:
\* from left to right, every piece of out is a character copied from text or
\* the value of a key that matches text at that place.
DerivedInOnePass(text, out, d) ==
    LET E[i \in 1..(Len(text) + 1), j \in 1..(Len(out) + 1)] ==
            \/ i = Len(text) + 1 /\ j = Len(out) + 1
            \/ /\ i <= Len(text)
               /\ j <= Len(out)
               /\ text[i] = out[j]
               /\ E[i + 1, j + 1]
            \/ \E k \in 1..Len(d) :
                   /\ MatchKey(text, i, d[k][1]) > 0
                   /\ j + Len(d[k][2]) - 1 <= Len(out)
                   /\ SubSeq(out, j, j + Len(d[k][2]) - 1) = d[k][2]
                   /\ E[i + Len(d[k][1]), j + Len(d[k][2])]
    IN  E[1, 1]

\* C23: translate is a single pass over the text it is given: every character
\* of its output is copied from the input or belongs to the value of a key
\* that matched in the input, so that no value it inserted is rewritten by a
\* later key.
C23_SinglePass ==
    [][ \A src \in {"en", "ja"} : \A g \in TranslateGlossaries :
            TranslatedWith(src, g) =>
                DerivedInOnePass(Get(txt), txt', merged_dict(src, g)) ]_vars

=============================================================================
